---- MODULE Spec2Model ----
(***************************************************************************)
(* Model of the unit conversion library (units, migration-utils).          *)
(*                                                                         *)
(* Strings on which the code performs string operations (unit strings)     *)
(* are sequences of one-character strings, so that toLowerCase, trim and   *)
(* property lookup are computed rather than assumed.  A JavaScript number  *)
(* is a binary64 value: NaN, an infinity, or a finite s * m * 2^e whose    *)
(* significand m is a natural number held as a sequence of digits.  Every  *)
(* product, quotient and difference is rounded to the nearest binary64     *)
(* value, ties to even, with overflow to an infinity and gradual           *)
(* underflow; 0 and -0 are two values.                                     *)
(***************************************************************************)
EXTENDS Integers, Sequences, FiniteSets, TLC

\* call: the function called and its arguments; outcome: what it returned or
\* threw; unitTable: the module-level object TO_BASE_FACTORS as it stands;
\* provider: the two state cells of a mounted UnitsProvider with the updates
\* queued for them, where a call of updatePreferences stands that React has
\* interrupted to render, and what updatePreferences has been given and has
\* passed to onPreferencesChange
VARIABLES call, outcome, unitTable, provider

vars == <<call, outcome, unitTable, provider>>

-----------------------------------------------------------------------------
(* Bounds *)

\* the most calls of updatePreferences made on one provider
MaxUpdates == 3

\* longest batch handed to migrateTestResults / validateMigration
MaxBatch == 2

\* largest magnitude of an integer input value
MaxValue == 2

-----------------------------------------------------------------------------
(* JavaScript values *)

\* the value null (a unit string is a sequence of one-character strings,
\* so a one-element sequence holding a longer string is no unit string)
null == <<"#null">>

\* the value undefined
undefined == <<"#undefined">>

Abs(i) == IF i < 0 THEN -i ELSE i

Sign(i) == IF i < 0 THEN -1 ELSE IF i = 0 THEN 0 ELSE 1

\* A natural number of any size is the sequence of its digits in base 2^15,
\* least significant first and without leading zeros (zero is <<>>), so
\* that the 53-bit significands of binary64 and their products can be
\* computed with the integers of the checker.
LimbBits == 15

LimbBase == 32768

RECURSIVE Pow2(_)
Pow2(n) == IF n = 0 THEN 1 ELSE 2 * Pow2(n - 1)

RECURSIVE Trim(_)
Trim(a) ==
    IF a = <<>> THEN <<>>
    ELSE IF a[Len(a)] = 0 THEN Trim(SubSeq(a, 1, Len(a) - 1))
    ELSE a

RECURSIVE BigOf(_)
BigOf(n) == IF n = 0 THEN <<>> ELSE <<n % LimbBase>> \o BigOf(n \div LimbBase)

Limb(a, i) == IF i <= Len(a) THEN a[i] ELSE 0

RECURSIVE AddFrom(_, _, _, _)
AddFrom(a, b, i, carry) ==
    IF i > Len(a) /\ i > Len(b) THEN (IF carry = 0 THEN <<>> ELSE <<carry>>)
    ELSE LET t == Limb(a, i) + Limb(b, i) + carry
         IN  <<t % LimbBase>> \o AddFrom(a, b, i + 1, t \div LimbBase)

BigAdd(a, b) == AddFrom(a, b, 1, 0)

RECURSIVE SubFrom(_, _, _, _)
SubFrom(a, b, i, borrow) ==
    IF i > Len(a) THEN <<>>
    ELSE LET t == Limb(a, i) - Limb(b, i) - borrow
         IN  <<IF t < 0 THEN t + LimbBase ELSE t>>
             \o SubFrom(a, b, i + 1, IF t < 0 THEN 1 ELSE 0)

\* a - b for a >= b
BigSub(a, b) == Trim(SubFrom(a, b, 1, 0))

RECURSIVE LessFrom(_, _, _)
LessFrom(a, b, i) ==
    IF i = 0 THEN FALSE
    ELSE IF a[i] # b[i] THEN a[i] < b[i]
    ELSE LessFrom(a, b, i - 1)

BigLess(a, b) == IF Len(a) # Len(b) THEN Len(a) < Len(b) ELSE LessFrom(a, b, Len(a))

RECURSIVE MulSmallFrom(_, _, _, _)
MulSmallFrom(a, k, i, carry) ==
    IF i > Len(a) THEN (IF carry = 0 THEN <<>> ELSE <<carry>>)
    ELSE LET t == a[i] * k + carry
         IN  <<t % LimbBase>> \o MulSmallFrom(a, k, i + 1, t \div LimbBase)

\* a * k for 0 <= k < 2^15
BigMulSmall(a, k) == IF k = 0 THEN <<>> ELSE MulSmallFrom(a, k, 1, 0)

\* the digits of a shifted up by one place
ShiftDigit(a) == IF a = <<>> THEN <<>> ELSE <<0>> \o a

RECURSIVE MulFrom(_, _, _)
MulFrom(a, b, i) ==
    IF i > Len(b) THEN <<>>
    ELSE BigAdd(BigMulSmall(a, b[i]), ShiftDigit(MulFrom(a, b, i + 1)))

BigMul(a, b) == IF a = <<>> THEN <<>> ELSE MulFrom(a, b, 1)

\* a * 2^n
BigShl(a, n) ==
    IF a = <<>> THEN <<>>
    ELSE [i \in 1..(n \div LimbBits) |-> 0] \o BigMulSmall(a, Pow2(n % LimbBits))

\* floor(a / 2^r) for r < 15, on the digits of a
ShrDigits(a, r) ==
    Trim([i \in 1..Len(a) |->
            (a[i] \div Pow2(r)) + (Limb(a, i + 1) % Pow2(r)) * Pow2(LimbBits - r)])

\* floor(a / 2^n)
BigShr(a, n) ==
    IF n \div LimbBits >= Len(a) THEN <<>>
    ELSE ShrDigits(SubSeq(a, (n \div LimbBits) + 1, Len(a)), n % LimbBits)

RECURSIVE SmallBitLength(_)
SmallBitLength(k) == IF k = 0 THEN 0 ELSE 1 + SmallBitLength(k \div 2)

\* the number of binary digits of a
BitLength(a) ==
    IF a = <<>> THEN 0 ELSE LimbBits * (Len(a) - 1) + SmallBitLength(a[Len(a)])

\* binary digit i of a (digit 0 is the least significant)
Bit(a, i) == (Limb(a, (i \div LimbBits) + 1) \div Pow2(i % LimbBits)) % 2

RECURSIVE SmallTrailingZeros(_)
SmallTrailingZeros(k) == IF k % 2 = 1 THEN 0 ELSE 1 + SmallTrailingZeros(k \div 2)

RECURSIVE TrailingZerosFrom(_, _)
TrailingZerosFrom(a, i) ==
    IF a[i] = 0 THEN LimbBits + TrailingZerosFrom(a, i + 1) ELSE SmallTrailingZeros(a[i])

\* the number of zero binary digits below the lowest one of a # 0
TrailingZeros(a) == TrailingZerosFrom(a, 1)

\* A number is a binary64 value: NaN, an infinity (s = 1 or -1), or the
\* finite value s * m * 2^e with m odd (0 and -0 have m = <<>>, e = 0 and
\* s = 1 and -1).
NaN == [k |-> "NaN", s |-> 1, m |-> <<>>, e |-> 0]

Infinity(sign) == [k |-> "Infinity", s |-> sign, m |-> <<>>, e |-> 0]

\* 0 (sign = 1) and -0 (sign = -1)
ZeroOf(sign) == [k |-> "num", s |-> sign, m |-> <<>>, e |-> 0]

Zero == ZeroOf(1)

NegativeZero == ZeroOf(-1)

\* null and undefined where a number is expected (number | null | undefined)
NullValue == [k |-> "null", s |-> 1, m |-> <<>>, e |-> 0]

UndefinedValue == [k |-> "undefined", s |-> 1, m |-> <<>>, e |-> 0]

\* isNaN(value): undefined coerces to NaN, null to 0
isNaN(a) == a.k \in {"NaN", "undefined"}

IsZero(a) == a.k = "num" /\ a.m = <<>>

\* binary64: 53 binary digits of precision, least exponent -1074, values
\* below 2^1024
Precision == 53

MinExponent == -1074

MaxExponent == 1024

Max(i, j) == IF i < j THEN j ELSE i

Min(i, j) == IF i < j THEN i ELSE j

\* the finite number sign * m * 2^e for an odd m of at most 53 binary
\* digits, or the infinity of its sign when it is 2^1024 or more
Pack(sign, m, e) ==
    IF BitLength(m) + e > MaxExponent THEN Infinity(sign)
    ELSE [k |-> "num", s |-> sign, m |-> m, e |-> e]

\* sign * r * 2^E with the tz trailing zero digits of r moved to the exponent
Strip(sign, r, E, tz) == Pack(sign, BigShr(r, tz), E + tz)

\* sign * r * 2^E for r of at most 53 binary digits
Normalize(sign, r, E) ==
    IF r = <<>> THEN ZeroOf(sign) ELSE Strip(sign, r, E, TrailingZeros(r))

\* M without its drop lowest binary digits (q) is rounded up when the
\* dropped digits are more than half a unit, or half a unit and q is odd
RoundsUp(M, drop, q) ==
    /\ drop > 0
    /\ Bit(M, drop - 1) = 1
    /\ (TrailingZeros(M) < drop - 1 \/ Bit(q, 0) = 1)

RoundQuotient(sign, M, E, drop, q) ==
    Normalize(sign, IF RoundsUp(M, drop, q) THEN BigAdd(q, <<1>>) ELSE q, E + drop)

RoundDrop(sign, M, E, drop) == RoundQuotient(sign, M, E, drop, BigShr(M, drop))

\* the binary64 value nearest to sign * M * 2^E, ties to the even
\* significand: the digits of M beyond the precision, and those below the
\* least exponent, are dropped
Round(sign, M, E) ==
    IF M = <<>> THEN ZeroOf(sign)
    ELSE RoundDrop(sign, M, E, Max(Max(BitLength(M) - Precision, MinExponent - E), 0))

\* the number with the integer value n
NumberOf(n) == Round(IF n < 0 THEN -1 ELSE 1, BigOf(Abs(n)), 0)

\* a * b on numbers
Times(a, b) ==
    IF a.k = "NaN" \/ b.k = "NaN" THEN NaN
    ELSE IF a.k = "Infinity" \/ b.k = "Infinity"
         THEN IF IsZero(a) \/ IsZero(b) THEN NaN
              ELSE Infinity(a.s * b.s)
    ELSE Round(a.s * b.s, BigMul(a.m, b.m), a.e + b.e)

\* the next digit (in base 2^15) of the quotient of a division by D with
\* remainder R < D, one binary digit at a time; the result is
\* <<digit, remainder>>
RECURSIVE DivDigit(_, _, _, _)
DivDigit(R, D, k, digit) ==
    IF k = 0 THEN <<digit, R>>
    ELSE IF BigLess(BigAdd(R, R), D) THEN DivDigit(BigAdd(R, R), D, k - 1, 2 * digit)
    ELSE DivDigit(BigSub(BigAdd(R, R), D), D, k - 1, 2 * digit + 1)

\* n more digits of the quotient Q, the last of them being dr[1] and the
\* remainder after it dr[2]; the result is <<quotient, remainder>>
RECURSIVE DivLimbs(_, _, _, _)
DivLimbs(dr, D, Q, n) ==
    IF n = 0 THEN <<Trim(<<dr[1]>> \o Q), dr[2]>>
    ELSE DivLimbs(DivDigit(dr[2], D, LimbBits, 0), D, <<dr[1]>> \o Q, n - 1)

\* the digits of a quotient computed below its leading one: 60 binary
\* digits, more than the precision and its rounding digit
QuotientLimbs == 4

\* the quotient with one more binary digit, which records whether a
\* remainder is left and so decides the rounding
WithSticky(qr) ==
    BigAdd(BigAdd(qr[1], qr[1]), IF qr[2] = <<>> THEN <<>> ELSE <<1>>)

\* sign * (N / D) * 2^E for N / D between 1/2 and 2
Divide(sign, N, D, E) ==
    Round(sign,
          WithSticky(DivLimbs(IF BigLess(N, D) THEN <<0, N>> ELSE <<1, BigSub(N, D)>>,
                              D, <<>>, QuotientLimbs)),
          E - (QuotientLimbs * LimbBits + 1))

\* a / b for significands of la and lb binary digits: they are aligned
Align(a, b, la, lb) ==
    Divide(a.s * b.s,
           IF la < lb THEN BigShl(a.m, lb - la) ELSE a.m,
           IF la < lb THEN b.m ELSE BigShl(b.m, la - lb),
           a.e - b.e + la - lb)

\* a / b on finite numbers other than zero
Quotient(a, b) == Align(a, b, BitLength(a.m), BitLength(b.m))

\* a / b on numbers
Over(a, b) ==
    IF a.k = "NaN" \/ b.k = "NaN" THEN NaN
    ELSE IF a.k = "Infinity"
         THEN IF b.k = "Infinity" THEN NaN ELSE Infinity(a.s * b.s)
    ELSE IF b.k = "Infinity" THEN ZeroOf(a.s * b.s)
    ELSE IF IsZero(b)
         THEN IF IsZero(a) THEN NaN ELSE Infinity(a.s * b.s)
    ELSE IF IsZero(a) THEN ZeroOf(a.s * b.s)
    ELSE Quotient(a, b)

\* the number nearest to n/d (d # 0): the value of a decimal literal
Num(n, d) == Over(NumberOf(n), NumberOf(d))

\* the position above the highest binary digit of a finite number # 0
Top(a) == BitLength(a.m) + a.e

\* sign * (|A - B|) * 2^e0 with the sign turned when A < B; the difference
\* of equal numbers is 0
Subtract(sign, A, B, e0) ==
    IF A = B THEN Zero
    ELSE IF BigLess(A, B) THEN Round(-sign, BigSub(B, A), e0) ELSE Round(sign, BigSub(A, B), e0)

\* a - b for significands aligned at the exponent e0
DifferenceAt(a, b, e0) ==
    IF a.s # b.s THEN Round(a.s, BigAdd(BigShl(a.m, a.e - e0), BigShl(b.m, b.e - e0)), e0)
    ELSE Subtract(a.s, BigShl(a.m, a.e - e0), BigShl(b.m, b.e - e0), e0)

\* a - b on finite numbers: exact, then rounded; a number wholly below the
\* rounding digit of the other does not change it; of the differences of
\* two zeros only -0 - 0 is -0
Difference(a, b) ==
    IF IsZero(a) /\ IsZero(b) THEN ZeroOf(IF a.s < 0 /\ b.s > 0 THEN -1 ELSE 1)
    ELSE IF IsZero(b) THEN a
    ELSE IF IsZero(a) THEN [b EXCEPT !.s = -b.s]
    ELSE IF Top(a) - Top(b) > Precision + 11 THEN a
    ELSE IF Top(b) - Top(a) > Precision + 11 THEN [b EXCEPT !.s = -b.s]
    ELSE DifferenceAt(a, b, Min(a.e, b.e))

\* a - b on numbers
Minus(a, b) ==
    IF a.k = "NaN" \/ b.k = "NaN" THEN NaN
    ELSE IF a.k = "Infinity"
         THEN IF b.k = "Infinity" /\ b.s = a.s THEN NaN ELSE a
    ELSE IF b.k = "Infinity" THEN Infinity(-b.s)
    ELSE Difference(a, b)

\* Math.abs
MathAbs(a) == IF a.k = "NaN" THEN NaN ELSE [a EXCEPT !.s = 1]

\* |a| < |b| on finite numbers other than zero
MagnitudeLess(a, b) ==
    IF Top(a) # Top(b) THEN Top(a) < Top(b)
    ELSE BigLess(BigShl(a.m, a.e - Min(a.e, b.e)), BigShl(b.m, b.e - Min(a.e, b.e)))

\* a < b on numbers (false when either is NaN)
Less(a, b) ==
    IF a.k = "NaN" \/ b.k = "NaN" THEN FALSE
    ELSE IF a.k = "Infinity" THEN a.s < 0 /\ ~(b.k = "Infinity" /\ b.s < 0)
    ELSE IF b.k = "Infinity" THEN b.s > 0
    ELSE IF IsZero(a) THEN ~IsZero(b) /\ b.s > 0
    ELSE IF IsZero(b) THEN a.s < 0
    ELSE IF a.s # b.s THEN a.s < b.s
    ELSE IF a.s > 0 THEN MagnitudeLess(a, b)
    ELSE MagnitudeLess(b, a)

\* a === b on numbers (NaN is not equal to itself, 0 is equal to -0)
StrictEquals(a, b) ==
    /\ a.k # "NaN"
    /\ b.k # "NaN"
    /\ a = b \/ (IsZero(a) /\ IsZero(b))

\* the literal 1e-10
Tolerance1em10 == Over(NumberOf(1), Times(NumberOf(100000), NumberOf(100000)))

\* a < 1e-10
LessThan1em10(a) == Less(a, Tolerance1em10)

-----------------------------------------------------------------------------
(* Strings *)

\* A character is a one-character string when it is a printable ASCII
\* character other than the grave accent, or tab, line feed, carriage return
\* or form feed, and is written "U+XXXX" with its code point otherwise.  The characters of the model are
\* those of Basic Latin, Latin-1 Supplement, Latin Extended-A, Combining
\* Diacritical Marks, Greek and Coptic, Cyrillic, General Punctuation,
\* Letterlike Symbols and the Latin ligatures U+FB00 to U+FB06, and U+1680,
\* U+3000 and U+FEFF.

\* the characters String.prototype.trim removes: WhiteSpace (tab, vertical
\* tab, form feed, U+FEFF and the space separators) and LineTerminator
WhiteSpace ==
  { "\t", "\n", "U+000B", "\f", "\r", " ", "U+00A0", "U+1680", "U+2000",
    "U+2001", "U+2002", "U+2003", "U+2004", "U+2005", "U+2006", "U+2007",
    "U+2008", "U+2009", "U+200A", "U+2028", "U+2029", "U+202F", "U+205F",
    "U+3000", "U+FEFF" }

\* String.prototype.toLowerCase: the characters it changes, each with the
\* characters it becomes (the Unicode default case conversion, which is not
\* sensitive to the locale)
LowerCaseMapping ==
  { <<"A", <<"a">>>>, <<"B", <<"b">>>>, <<"C", <<"c">>>>, <<"D", <<"d">>>>,
    <<"E", <<"e">>>>, <<"F", <<"f">>>>, <<"G", <<"g">>>>, <<"H", <<"h">>>>,
    <<"I", <<"i">>>>, <<"J", <<"j">>>>, <<"K", <<"k">>>>, <<"L", <<"l">>>>,
    <<"M", <<"m">>>>, <<"N", <<"n">>>>, <<"O", <<"o">>>>, <<"P", <<"p">>>>,
    <<"Q", <<"q">>>>, <<"R", <<"r">>>>, <<"S", <<"s">>>>, <<"T", <<"t">>>>,
    <<"U", <<"u">>>>, <<"V", <<"v">>>>, <<"W", <<"w">>>>, <<"X", <<"x">>>>,
    <<"Y", <<"y">>>>, <<"Z", <<"z">>>>, <<"U+00C0", <<"U+00E0">>>>,
    <<"U+00C1", <<"U+00E1">>>>, <<"U+00C2", <<"U+00E2">>>>,
    <<"U+00C3", <<"U+00E3">>>>, <<"U+00C4", <<"U+00E4">>>>,
    <<"U+00C5", <<"U+00E5">>>>, <<"U+00C6", <<"U+00E6">>>>,
    <<"U+00C7", <<"U+00E7">>>>, <<"U+00C8", <<"U+00E8">>>>,
    <<"U+00C9", <<"U+00E9">>>>, <<"U+00CA", <<"U+00EA">>>>,
    <<"U+00CB", <<"U+00EB">>>>, <<"U+00CC", <<"U+00EC">>>>,
    <<"U+00CD", <<"U+00ED">>>>, <<"U+00CE", <<"U+00EE">>>>,
    <<"U+00CF", <<"U+00EF">>>>, <<"U+00D0", <<"U+00F0">>>>,
    <<"U+00D1", <<"U+00F1">>>>, <<"U+00D2", <<"U+00F2">>>>,
    <<"U+00D3", <<"U+00F3">>>>, <<"U+00D4", <<"U+00F4">>>>,
    <<"U+00D5", <<"U+00F5">>>>, <<"U+00D6", <<"U+00F6">>>>,
    <<"U+00D8", <<"U+00F8">>>>, <<"U+00D9", <<"U+00F9">>>>,
    <<"U+00DA", <<"U+00FA">>>>, <<"U+00DB", <<"U+00FB">>>>,
    <<"U+00DC", <<"U+00FC">>>>, <<"U+00DD", <<"U+00FD">>>>,
    <<"U+00DE", <<"U+00FE">>>>, <<"U+0100", <<"U+0101">>>>,
    <<"U+0102", <<"U+0103">>>>, <<"U+0104", <<"U+0105">>>>,
    <<"U+0106", <<"U+0107">>>>, <<"U+0108", <<"U+0109">>>>,
    <<"U+010A", <<"U+010B">>>>, <<"U+010C", <<"U+010D">>>>,
    <<"U+010E", <<"U+010F">>>>, <<"U+0110", <<"U+0111">>>>,
    <<"U+0112", <<"U+0113">>>>, <<"U+0114", <<"U+0115">>>>,
    <<"U+0116", <<"U+0117">>>>, <<"U+0118", <<"U+0119">>>>,
    <<"U+011A", <<"U+011B">>>>, <<"U+011C", <<"U+011D">>>>,
    <<"U+011E", <<"U+011F">>>>, <<"U+0120", <<"U+0121">>>>,
    <<"U+0122", <<"U+0123">>>>, <<"U+0124", <<"U+0125">>>>,
    <<"U+0126", <<"U+0127">>>>, <<"U+0128", <<"U+0129">>>>,
    <<"U+012A", <<"U+012B">>>>, <<"U+012C", <<"U+012D">>>>,
    <<"U+012E", <<"U+012F">>>>, <<"U+0130", <<"i", "U+0307">>>>,
    <<"U+0132", <<"U+0133">>>>, <<"U+0134", <<"U+0135">>>>,
    <<"U+0136", <<"U+0137">>>>, <<"U+0139", <<"U+013A">>>>,
    <<"U+013B", <<"U+013C">>>>, <<"U+013D", <<"U+013E">>>>,
    <<"U+013F", <<"U+0140">>>>, <<"U+0141", <<"U+0142">>>>,
    <<"U+0143", <<"U+0144">>>>, <<"U+0145", <<"U+0146">>>>,
    <<"U+0147", <<"U+0148">>>>, <<"U+014A", <<"U+014B">>>>,
    <<"U+014C", <<"U+014D">>>>, <<"U+014E", <<"U+014F">>>>,
    <<"U+0150", <<"U+0151">>>>, <<"U+0152", <<"U+0153">>>>,
    <<"U+0154", <<"U+0155">>>>, <<"U+0156", <<"U+0157">>>>,
    <<"U+0158", <<"U+0159">>>>, <<"U+015A", <<"U+015B">>>>,
    <<"U+015C", <<"U+015D">>>>, <<"U+015E", <<"U+015F">>>>,
    <<"U+0160", <<"U+0161">>>>, <<"U+0162", <<"U+0163">>>>,
    <<"U+0164", <<"U+0165">>>>, <<"U+0166", <<"U+0167">>>>,
    <<"U+0168", <<"U+0169">>>>, <<"U+016A", <<"U+016B">>>>,
    <<"U+016C", <<"U+016D">>>>, <<"U+016E", <<"U+016F">>>>,
    <<"U+0170", <<"U+0171">>>>, <<"U+0172", <<"U+0173">>>>,
    <<"U+0174", <<"U+0175">>>>, <<"U+0176", <<"U+0177">>>>,
    <<"U+0178", <<"U+00FF">>>>, <<"U+0179", <<"U+017A">>>>,
    <<"U+017B", <<"U+017C">>>>, <<"U+017D", <<"U+017E">>>>,
    <<"U+0370", <<"U+0371">>>>, <<"U+0372", <<"U+0373">>>>,
    <<"U+0376", <<"U+0377">>>>, <<"U+037F", <<"U+03F3">>>>,
    <<"U+0386", <<"U+03AC">>>>, <<"U+0388", <<"U+03AD">>>>,
    <<"U+0389", <<"U+03AE">>>>, <<"U+038A", <<"U+03AF">>>>,
    <<"U+038C", <<"U+03CC">>>>, <<"U+038E", <<"U+03CD">>>>,
    <<"U+038F", <<"U+03CE">>>>, <<"U+0391", <<"U+03B1">>>>,
    <<"U+0392", <<"U+03B2">>>>, <<"U+0393", <<"U+03B3">>>>,
    <<"U+0394", <<"U+03B4">>>>, <<"U+0395", <<"U+03B5">>>>,
    <<"U+0396", <<"U+03B6">>>>, <<"U+0397", <<"U+03B7">>>>,
    <<"U+0398", <<"U+03B8">>>>, <<"U+0399", <<"U+03B9">>>>,
    <<"U+039A", <<"U+03BA">>>>, <<"U+039B", <<"U+03BB">>>>,
    <<"U+039C", <<"U+03BC">>>>, <<"U+039D", <<"U+03BD">>>>,
    <<"U+039E", <<"U+03BE">>>>, <<"U+039F", <<"U+03BF">>>>,
    <<"U+03A0", <<"U+03C0">>>>, <<"U+03A1", <<"U+03C1">>>>,
    <<"U+03A3", <<"U+03C3">>>>, <<"U+03A4", <<"U+03C4">>>>,
    <<"U+03A5", <<"U+03C5">>>>, <<"U+03A6", <<"U+03C6">>>>,
    <<"U+03A7", <<"U+03C7">>>>, <<"U+03A8", <<"U+03C8">>>>,
    <<"U+03A9", <<"U+03C9">>>>, <<"U+03AA", <<"U+03CA">>>>,
    <<"U+03AB", <<"U+03CB">>>>, <<"U+03CF", <<"U+03D7">>>>,
    <<"U+03D8", <<"U+03D9">>>>, <<"U+03DA", <<"U+03DB">>>>,
    <<"U+03DC", <<"U+03DD">>>>, <<"U+03DE", <<"U+03DF">>>>,
    <<"U+03E0", <<"U+03E1">>>>, <<"U+03E2", <<"U+03E3">>>>,
    <<"U+03E4", <<"U+03E5">>>>, <<"U+03E6", <<"U+03E7">>>>,
    <<"U+03E8", <<"U+03E9">>>>, <<"U+03EA", <<"U+03EB">>>>,
    <<"U+03EC", <<"U+03ED">>>>, <<"U+03EE", <<"U+03EF">>>>,
    <<"U+03F4", <<"U+03B8">>>>, <<"U+03F7", <<"U+03F8">>>>,
    <<"U+03F9", <<"U+03F2">>>>, <<"U+03FA", <<"U+03FB">>>>,
    <<"U+03FD", <<"U+037B">>>>, <<"U+03FE", <<"U+037C">>>>,
    <<"U+03FF", <<"U+037D">>>>, <<"U+0400", <<"U+0450">>>>,
    <<"U+0401", <<"U+0451">>>>, <<"U+0402", <<"U+0452">>>>,
    <<"U+0403", <<"U+0453">>>>, <<"U+0404", <<"U+0454">>>>,
    <<"U+0405", <<"U+0455">>>>, <<"U+0406", <<"U+0456">>>>,
    <<"U+0407", <<"U+0457">>>>, <<"U+0408", <<"U+0458">>>>,
    <<"U+0409", <<"U+0459">>>>, <<"U+040A", <<"U+045A">>>>,
    <<"U+040B", <<"U+045B">>>>, <<"U+040C", <<"U+045C">>>>,
    <<"U+040D", <<"U+045D">>>>, <<"U+040E", <<"U+045E">>>>,
    <<"U+040F", <<"U+045F">>>>, <<"U+0410", <<"U+0430">>>>,
    <<"U+0411", <<"U+0431">>>>, <<"U+0412", <<"U+0432">>>>,
    <<"U+0413", <<"U+0433">>>>, <<"U+0414", <<"U+0434">>>>,
    <<"U+0415", <<"U+0435">>>>, <<"U+0416", <<"U+0436">>>>,
    <<"U+0417", <<"U+0437">>>>, <<"U+0418", <<"U+0438">>>>,
    <<"U+0419", <<"U+0439">>>>, <<"U+041A", <<"U+043A">>>>,
    <<"U+041B", <<"U+043B">>>>, <<"U+041C", <<"U+043C">>>>,
    <<"U+041D", <<"U+043D">>>>, <<"U+041E", <<"U+043E">>>>,
    <<"U+041F", <<"U+043F">>>>, <<"U+0420", <<"U+0440">>>>,
    <<"U+0421", <<"U+0441">>>>, <<"U+0422", <<"U+0442">>>>,
    <<"U+0423", <<"U+0443">>>>, <<"U+0424", <<"U+0444">>>>,
    <<"U+0425", <<"U+0445">>>>, <<"U+0426", <<"U+0446">>>>,
    <<"U+0427", <<"U+0447">>>>, <<"U+0428", <<"U+0448">>>>,
    <<"U+0429", <<"U+0449">>>>, <<"U+042A", <<"U+044A">>>>,
    <<"U+042B", <<"U+044B">>>>, <<"U+042C", <<"U+044C">>>>,
    <<"U+042D", <<"U+044D">>>>, <<"U+042E", <<"U+044E">>>>,
    <<"U+042F", <<"U+044F">>>>, <<"U+0460", <<"U+0461">>>>,
    <<"U+0462", <<"U+0463">>>>, <<"U+0464", <<"U+0465">>>>,
    <<"U+0466", <<"U+0467">>>>, <<"U+0468", <<"U+0469">>>>,
    <<"U+046A", <<"U+046B">>>>, <<"U+046C", <<"U+046D">>>>,
    <<"U+046E", <<"U+046F">>>>, <<"U+0470", <<"U+0471">>>>,
    <<"U+0472", <<"U+0473">>>>, <<"U+0474", <<"U+0475">>>>,
    <<"U+0476", <<"U+0477">>>>, <<"U+0478", <<"U+0479">>>>,
    <<"U+047A", <<"U+047B">>>>, <<"U+047C", <<"U+047D">>>>,
    <<"U+047E", <<"U+047F">>>>, <<"U+0480", <<"U+0481">>>>,
    <<"U+048A", <<"U+048B">>>>, <<"U+048C", <<"U+048D">>>>,
    <<"U+048E", <<"U+048F">>>>, <<"U+0490", <<"U+0491">>>>,
    <<"U+0492", <<"U+0493">>>>, <<"U+0494", <<"U+0495">>>>,
    <<"U+0496", <<"U+0497">>>>, <<"U+0498", <<"U+0499">>>>,
    <<"U+049A", <<"U+049B">>>>, <<"U+049C", <<"U+049D">>>>,
    <<"U+049E", <<"U+049F">>>>, <<"U+04A0", <<"U+04A1">>>>,
    <<"U+04A2", <<"U+04A3">>>>, <<"U+04A4", <<"U+04A5">>>>,
    <<"U+04A6", <<"U+04A7">>>>, <<"U+04A8", <<"U+04A9">>>>,
    <<"U+04AA", <<"U+04AB">>>>, <<"U+04AC", <<"U+04AD">>>>,
    <<"U+04AE", <<"U+04AF">>>>, <<"U+04B0", <<"U+04B1">>>>,
    <<"U+04B2", <<"U+04B3">>>>, <<"U+04B4", <<"U+04B5">>>>,
    <<"U+04B6", <<"U+04B7">>>>, <<"U+04B8", <<"U+04B9">>>>,
    <<"U+04BA", <<"U+04BB">>>>, <<"U+04BC", <<"U+04BD">>>>,
    <<"U+04BE", <<"U+04BF">>>>, <<"U+04C0", <<"U+04CF">>>>,
    <<"U+04C1", <<"U+04C2">>>>, <<"U+04C3", <<"U+04C4">>>>,
    <<"U+04C5", <<"U+04C6">>>>, <<"U+04C7", <<"U+04C8">>>>,
    <<"U+04C9", <<"U+04CA">>>>, <<"U+04CB", <<"U+04CC">>>>,
    <<"U+04CD", <<"U+04CE">>>>, <<"U+04D0", <<"U+04D1">>>>,
    <<"U+04D2", <<"U+04D3">>>>, <<"U+04D4", <<"U+04D5">>>>,
    <<"U+04D6", <<"U+04D7">>>>, <<"U+04D8", <<"U+04D9">>>>,
    <<"U+04DA", <<"U+04DB">>>>, <<"U+04DC", <<"U+04DD">>>>,
    <<"U+04DE", <<"U+04DF">>>>, <<"U+04E0", <<"U+04E1">>>>,
    <<"U+04E2", <<"U+04E3">>>>, <<"U+04E4", <<"U+04E5">>>>,
    <<"U+04E6", <<"U+04E7">>>>, <<"U+04E8", <<"U+04E9">>>>,
    <<"U+04EA", <<"U+04EB">>>>, <<"U+04EC", <<"U+04ED">>>>,
    <<"U+04EE", <<"U+04EF">>>>, <<"U+04F0", <<"U+04F1">>>>,
    <<"U+04F2", <<"U+04F3">>>>, <<"U+04F4", <<"U+04F5">>>>,
    <<"U+04F6", <<"U+04F7">>>>, <<"U+04F8", <<"U+04F9">>>>,
    <<"U+04FA", <<"U+04FB">>>>, <<"U+04FC", <<"U+04FD">>>>,
    <<"U+04FE", <<"U+04FF">>>>, <<"U+2126", <<"U+03C9">>>>,
    <<"U+212A", <<"k">>>>, <<"U+212B", <<"U+00E5">>>>,
    <<"U+2132", <<"U+214E">>>> }

\* the mapping as a function
LowerCaseImage ==
    [c \in {p[1] : p \in LowerCaseMapping} |->
        (CHOOSE p \in LowerCaseMapping : p[1] = c)[2]]

\* the cased letters that are not case-ignorable, and the case-ignorable
\* characters, by which toLowerCase tells a final capital sigma
Cased ==
  { "A", "B", "C", "D", "E", "F", "G", "H", "I", "J", "K", "L", "M", "N",
    "O", "P", "Q", "R", "S", "T", "U", "V", "W", "X", "Y", "Z", "a", "b",
    "c", "d", "e", "f", "g", "h", "i", "j", "k", "l", "m", "n", "o", "p",
    "q", "r", "s", "t", "u", "v", "w", "x", "y", "z", "U+00AA", "U+00B5",
    "U+00BA", "U+00C0", "U+00C1", "U+00C2", "U+00C3", "U+00C4", "U+00C5",
    "U+00C6", "U+00C7", "U+00C8", "U+00C9", "U+00CA", "U+00CB", "U+00CC",
    "U+00CD", "U+00CE", "U+00CF", "U+00D0", "U+00D1", "U+00D2", "U+00D3",
    "U+00D4", "U+00D5", "U+00D6", "U+00D8", "U+00D9", "U+00DA", "U+00DB",
    "U+00DC", "U+00DD", "U+00DE", "U+00DF", "U+00E0", "U+00E1", "U+00E2",
    "U+00E3", "U+00E4", "U+00E5", "U+00E6", "U+00E7", "U+00E8", "U+00E9",
    "U+00EA", "U+00EB", "U+00EC", "U+00ED", "U+00EE", "U+00EF", "U+00F0",
    "U+00F1", "U+00F2", "U+00F3", "U+00F4", "U+00F5", "U+00F6", "U+00F8",
    "U+00F9", "U+00FA", "U+00FB", "U+00FC", "U+00FD", "U+00FE", "U+00FF",
    "U+0100", "U+0101", "U+0102", "U+0103", "U+0104", "U+0105", "U+0106",
    "U+0107", "U+0108", "U+0109", "U+010A", "U+010B", "U+010C", "U+010D",
    "U+010E", "U+010F", "U+0110", "U+0111", "U+0112", "U+0113", "U+0114",
    "U+0115", "U+0116", "U+0117", "U+0118", "U+0119", "U+011A", "U+011B",
    "U+011C", "U+011D", "U+011E", "U+011F", "U+0120", "U+0121", "U+0122",
    "U+0123", "U+0124", "U+0125", "U+0126", "U+0127", "U+0128", "U+0129",
    "U+012A", "U+012B", "U+012C", "U+012D", "U+012E", "U+012F", "U+0130",
    "U+0131", "U+0132", "U+0133", "U+0134", "U+0135", "U+0136", "U+0137",
    "U+0138", "U+0139", "U+013A", "U+013B", "U+013C", "U+013D", "U+013E",
    "U+013F", "U+0140", "U+0141", "U+0142", "U+0143", "U+0144", "U+0145",
    "U+0146", "U+0147", "U+0148", "U+0149", "U+014A", "U+014B", "U+014C",
    "U+014D", "U+014E", "U+014F", "U+0150", "U+0151", "U+0152", "U+0153",
    "U+0154", "U+0155", "U+0156", "U+0157", "U+0158", "U+0159", "U+015A",
    "U+015B", "U+015C", "U+015D", "U+015E", "U+015F", "U+0160", "U+0161",
    "U+0162", "U+0163", "U+0164", "U+0165", "U+0166", "U+0167", "U+0168",
    "U+0169", "U+016A", "U+016B", "U+016C", "U+016D", "U+016E", "U+016F",
    "U+0170", "U+0171", "U+0172", "U+0173", "U+0174", "U+0175", "U+0176",
    "U+0177", "U+0178", "U+0179", "U+017A", "U+017B", "U+017C", "U+017D",
    "U+017E", "U+017F", "U+0370", "U+0371", "U+0372", "U+0373", "U+0376",
    "U+0377", "U+037B", "U+037C", "U+037D", "U+037F", "U+0386", "U+0388",
    "U+0389", "U+038A", "U+038C", "U+038E", "U+038F", "U+0390", "U+0391",
    "U+0392", "U+0393", "U+0394", "U+0395", "U+0396", "U+0397", "U+0398",
    "U+0399", "U+039A", "U+039B", "U+039C", "U+039D", "U+039E", "U+039F",
    "U+03A0", "U+03A1", "U+03A3", "U+03A4", "U+03A5", "U+03A6", "U+03A7",
    "U+03A8", "U+03A9", "U+03AA", "U+03AB", "U+03AC", "U+03AD", "U+03AE",
    "U+03AF", "U+03B0", "U+03B1", "U+03B2", "U+03B3", "U+03B4", "U+03B5",
    "U+03B6", "U+03B7", "U+03B8", "U+03B9", "U+03BA", "U+03BB", "U+03BC",
    "U+03BD", "U+03BE", "U+03BF", "U+03C0", "U+03C1", "U+03C2", "U+03C3",
    "U+03C4", "U+03C5", "U+03C6", "U+03C7", "U+03C8", "U+03C9", "U+03CA",
    "U+03CB", "U+03CC", "U+03CD", "U+03CE", "U+03CF", "U+03D0", "U+03D1",
    "U+03D2", "U+03D3", "U+03D4", "U+03D5", "U+03D6", "U+03D7", "U+03D8",
    "U+03D9", "U+03DA", "U+03DB", "U+03DC", "U+03DD", "U+03DE", "U+03DF",
    "U+03E0", "U+03E1", "U+03E2", "U+03E3", "U+03E4", "U+03E5", "U+03E6",
    "U+03E7", "U+03E8", "U+03E9", "U+03EA", "U+03EB", "U+03EC", "U+03ED",
    "U+03EE", "U+03EF", "U+03F0", "U+03F1", "U+03F2", "U+03F3", "U+03F4",
    "U+03F5", "U+03F7", "U+03F8", "U+03F9", "U+03FA", "U+03FB", "U+03FC",
    "U+03FD", "U+03FE", "U+03FF", "U+0400", "U+0401", "U+0402", "U+0403",
    "U+0404", "U+0405", "U+0406", "U+0407", "U+0408", "U+0409", "U+040A",
    "U+040B", "U+040C", "U+040D", "U+040E", "U+040F", "U+0410", "U+0411",
    "U+0412", "U+0413", "U+0414", "U+0415", "U+0416", "U+0417", "U+0418",
    "U+0419", "U+041A", "U+041B", "U+041C", "U+041D", "U+041E", "U+041F",
    "U+0420", "U+0421", "U+0422", "U+0423", "U+0424", "U+0425", "U+0426",
    "U+0427", "U+0428", "U+0429", "U+042A", "U+042B", "U+042C", "U+042D",
    "U+042E", "U+042F", "U+0430", "U+0431", "U+0432", "U+0433", "U+0434",
    "U+0435", "U+0436", "U+0437", "U+0438", "U+0439", "U+043A", "U+043B",
    "U+043C", "U+043D", "U+043E", "U+043F", "U+0440", "U+0441", "U+0442",
    "U+0443", "U+0444", "U+0445", "U+0446", "U+0447", "U+0448", "U+0449",
    "U+044A", "U+044B", "U+044C", "U+044D", "U+044E", "U+044F", "U+0450",
    "U+0451", "U+0452", "U+0453", "U+0454", "U+0455", "U+0456", "U+0457",
    "U+0458", "U+0459", "U+045A", "U+045B", "U+045C", "U+045D", "U+045E",
    "U+045F", "U+0460", "U+0461", "U+0462", "U+0463", "U+0464", "U+0465",
    "U+0466", "U+0467", "U+0468", "U+0469", "U+046A", "U+046B", "U+046C",
    "U+046D", "U+046E", "U+046F", "U+0470", "U+0471", "U+0472", "U+0473",
    "U+0474", "U+0475", "U+0476", "U+0477", "U+0478", "U+0479", "U+047A",
    "U+047B", "U+047C", "U+047D", "U+047E", "U+047F", "U+0480", "U+0481",
    "U+048A", "U+048B", "U+048C", "U+048D", "U+048E", "U+048F", "U+0490",
    "U+0491", "U+0492", "U+0493", "U+0494", "U+0495", "U+0496", "U+0497",
    "U+0498", "U+0499", "U+049A", "U+049B", "U+049C", "U+049D", "U+049E",
    "U+049F", "U+04A0", "U+04A1", "U+04A2", "U+04A3", "U+04A4", "U+04A5",
    "U+04A6", "U+04A7", "U+04A8", "U+04A9", "U+04AA", "U+04AB", "U+04AC",
    "U+04AD", "U+04AE", "U+04AF", "U+04B0", "U+04B1", "U+04B2", "U+04B3",
    "U+04B4", "U+04B5", "U+04B6", "U+04B7", "U+04B8", "U+04B9", "U+04BA",
    "U+04BB", "U+04BC", "U+04BD", "U+04BE", "U+04BF", "U+04C0", "U+04C1",
    "U+04C2", "U+04C3", "U+04C4", "U+04C5", "U+04C6", "U+04C7", "U+04C8",
    "U+04C9", "U+04CA", "U+04CB", "U+04CC", "U+04CD", "U+04CE", "U+04CF",
    "U+04D0", "U+04D1", "U+04D2", "U+04D3", "U+04D4", "U+04D5", "U+04D6",
    "U+04D7", "U+04D8", "U+04D9", "U+04DA", "U+04DB", "U+04DC", "U+04DD",
    "U+04DE", "U+04DF", "U+04E0", "U+04E1", "U+04E2", "U+04E3", "U+04E4",
    "U+04E5", "U+04E6", "U+04E7", "U+04E8", "U+04E9", "U+04EA", "U+04EB",
    "U+04EC", "U+04ED", "U+04EE", "U+04EF", "U+04F0", "U+04F1", "U+04F2",
    "U+04F3", "U+04F4", "U+04F5", "U+04F6", "U+04F7", "U+04F8", "U+04F9",
    "U+04FA", "U+04FB", "U+04FC", "U+04FD", "U+04FE", "U+04FF", "U+2102",
    "U+2107", "U+210A", "U+210B", "U+210C", "U+210D", "U+210E", "U+210F",
    "U+2110", "U+2111", "U+2112", "U+2113", "U+2115", "U+2119", "U+211A",
    "U+211B", "U+211C", "U+211D", "U+2124", "U+2126", "U+2128", "U+212A",
    "U+212B", "U+212C", "U+212D", "U+212F", "U+2130", "U+2131", "U+2132",
    "U+2133", "U+2134", "U+2139", "U+213C", "U+213D", "U+213E", "U+213F",
    "U+2145", "U+2146", "U+2147", "U+2148", "U+2149", "U+214E", "U+FB00",
    "U+FB01", "U+FB02", "U+FB03", "U+FB04", "U+FB05", "U+FB06" }

CaseIgnorable ==
  { "'", ".", ":", "^", "U+0060", "U+00A8", "U+00AD", "U+00AF", "U+00B4",
    "U+00B7", "U+00B8", "U+0300", "U+0301", "U+0302", "U+0303", "U+0304",
    "U+0305", "U+0306", "U+0307", "U+0308", "U+0309", "U+030A", "U+030B",
    "U+030C", "U+030D", "U+030E", "U+030F", "U+0310", "U+0311", "U+0312",
    "U+0313", "U+0314", "U+0315", "U+0316", "U+0317", "U+0318", "U+0319",
    "U+031A", "U+031B", "U+031C", "U+031D", "U+031E", "U+031F", "U+0320",
    "U+0321", "U+0322", "U+0323", "U+0324", "U+0325", "U+0326", "U+0327",
    "U+0328", "U+0329", "U+032A", "U+032B", "U+032C", "U+032D", "U+032E",
    "U+032F", "U+0330", "U+0331", "U+0332", "U+0333", "U+0334", "U+0335",
    "U+0336", "U+0337", "U+0338", "U+0339", "U+033A", "U+033B", "U+033C",
    "U+033D", "U+033E", "U+033F", "U+0340", "U+0341", "U+0342", "U+0343",
    "U+0344", "U+0345", "U+0346", "U+0347", "U+0348", "U+0349", "U+034A",
    "U+034B", "U+034C", "U+034D", "U+034E", "U+034F", "U+0350", "U+0351",
    "U+0352", "U+0353", "U+0354", "U+0355", "U+0356", "U+0357", "U+0358",
    "U+0359", "U+035A", "U+035B", "U+035C", "U+035D", "U+035E", "U+035F",
    "U+0360", "U+0361", "U+0362", "U+0363", "U+0364", "U+0365", "U+0366",
    "U+0367", "U+0368", "U+0369", "U+036A", "U+036B", "U+036C", "U+036D",
    "U+036E", "U+036F", "U+0374", "U+0375", "U+037A", "U+0384", "U+0385",
    "U+0387", "U+0483", "U+0484", "U+0485", "U+0486", "U+0487", "U+0488",
    "U+0489", "U+200B", "U+200C", "U+200D", "U+200E", "U+200F", "U+2018",
    "U+2019", "U+2024", "U+2027", "U+202A", "U+202B", "U+202C", "U+202D",
    "U+202E", "U+2060", "U+2061", "U+2062", "U+2063", "U+2064", "U+2066",
    "U+2067", "U+2068", "U+2069", "U+206A", "U+206B", "U+206C", "U+206D",
    "U+206E", "U+206F", "U+FEFF" }

\* the nearest character at or before position i that is not case-ignorable
\* is a cased letter
RECURSIVE CasedBefore(_, _)
CasedBefore(str, i) ==
    IF i < 1 THEN FALSE
    ELSE IF str[i] \in CaseIgnorable THEN CasedBefore(str, i - 1)
    ELSE str[i] \in Cased

\* the nearest character at or after position i that is not case-ignorable
\* is a cased letter
RECURSIVE CasedAfter(_, _)
CasedAfter(str, i) ==
    IF i > Len(str) THEN FALSE
    ELSE IF str[i] \in CaseIgnorable THEN CasedAfter(str, i + 1)
    ELSE str[i] \in Cased

\* the character at position i is a capital sigma at the end of a word
FinalSigma(str, i) ==
    str[i] = "U+03A3" /\ CasedBefore(str, i - 1) /\ ~CasedAfter(str, i + 1)

\* what the character at position i becomes in lower case
LowerCaseAt(str, i) ==
    IF FinalSigma(str, i) THEN <<"U+03C2">>
    ELSE IF str[i] \in DOMAIN LowerCaseImage THEN LowerCaseImage[str[i]]
    ELSE <<str[i]>>

RECURSIVE toLowerCaseFrom(_, _)
toLowerCaseFrom(str, i) ==
    IF i > Len(str) THEN <<>>
    ELSE LowerCaseAt(str, i) \o toLowerCaseFrom(str, i + 1)

\* String.prototype.toLowerCase
toLowerCase(str) == toLowerCaseFrom(str, 1)

\* String.prototype.trim
trim(str) ==
    LET keep == {i \in 1..Len(str) : str[i] \notin WhiteSpace}
    IN  IF keep = {} THEN <<>>
        ELSE LET first == CHOOSE i \in keep : \A j \in keep : i <= j
                 last  == CHOOSE i \in keep : \A j \in keep : j <= i
             IN  SubSeq(str, first, last)

-----------------------------------------------------------------------------
(* Number to string *)

\* the characters of the decimal digits 0..9
DigitChars == <<"0", "1", "2", "3", "4", "5", "6", "7", "8", "9">>

\* <<floor(a / k), a % k>> over the digits 1..i of a, for 0 < k < 2^15 and
\* rem the remainder left by the digits above i
RECURSIVE DivSmallFrom(_, _, _, _)
DivSmallFrom(a, k, i, rem) ==
    IF i = 0 THEN <<rem>>
    ELSE Append(DivSmallFrom(a, k, i - 1, (rem * LimbBase + a[i]) % k),
                (rem * LimbBase + a[i]) \div k)

\* floor(a / k) for 0 < k < 2^15
BigDivSmall(a, k) == Trim(Tail(DivSmallFrom(a, k, Len(a), 0)))

\* a % k for 0 < k < 2^15
BigModSmall(a, k) == Head(DivSmallFrom(a, k, Len(a), 0))

\* the four decimal digits of n < 10000
FourDigits(n) == <<n \div 1000, (n \div 100) % 10, (n \div 10) % 10, n % 10>>

\* the decimal digits of a, four at a time, most significant first
RECURSIVE DigitGroups(_)
DigitGroups(a) ==
    IF a = <<>> THEN <<>>
    ELSE DigitGroups(BigDivSmall(a, 10000)) \o FourDigits(BigModSmall(a, 10000))

\* a digit sequence without its leading zeros
RECURSIVE StripLeadingZeros(_)
StripLeadingZeros(ds) ==
    IF ds # <<>> /\ ds[1] = 0 THEN StripLeadingZeros(Tail(ds)) ELSE ds

\* the decimal digits of a, most significant first (none for zero)
DecimalDigits(a) == StripLeadingZeros(DigitGroups(a))

\* digits as characters
Text(ds) == [i \in 1..Len(ds) |-> DigitChars[ds[i] + 1]]

\* 10^f
RECURSIVE Pow10(_)
Pow10(f) ==
    IF f = 0 THEN <<1>>
    ELSE IF f % 2 = 1 THEN BigMulSmall(Pow10(f - 1), 10)
    ELSE BigMul(Pow10(f \div 2), Pow10(f \div 2))

\* floor(a / b) for a quotient below 2^60
FloorDiv(a, b) ==
    DivLimbs(<<0, a>>, BigShl(b, QuotientLimbs * LimbBits), <<>>, QuotientLimbs)[1]

\* the number of decimal digits of a # 0, which is d - 1, d or d + 1
DigitCountNear(a, d) ==
    IF BigLess(a, Pow10(d - 1)) THEN d - 1
    ELSE IF BigLess(a, Pow10(d)) THEN d
    ELSE d + 1

\* the number of decimal digits of a # 0, from the number of its binary
\* digits (log10(2) = 0.30103 to five places)
DigitCount(a) == DigitCountNear(a, ((BitLength(a) - 1) * 30103) \div 100000 + 1)

\* the magnitude of a finite number is at least 10^21 (2^69 < 10^21 < 2^70)
AtLeast1e21(x) ==
    /\ ~IsZero(x)
    /\ \/ Top(x) > 70
       \/ Top(x) = 70 /\ ~BigLess(BigShl(x.m, x.e), Pow10(21))

\* s * P read as a number gives the number of magnitude x
ReadsAs(s, P, x) == Round(1, BigMul(s, P), 0) = x

\* of two candidates lo < hi for which lo * P and hi * P both read as x, the
\* one nearer to X, and the even one when they are equally near
Nearer(X, lo, hi, P) ==
    IF BigLess(BigSub(X, BigMul(lo, P)), BigSub(BigMul(hi, P), X)) THEN lo
    ELSE IF BigLess(BigSub(BigMul(hi, P), X), BigSub(X, BigMul(lo, P))) THEN hi
    ELSE IF BigModSmall(lo, 2) = 0 THEN lo
    ELSE hi

\* of the candidates lo = floor(X / P) and hi = lo + 1, the one that reads
\* as x (the nearer one if both do), or <<>> if neither does
Candidate(x, X, lo, hi, P) ==
    IF ReadsAs(lo, P, x)
    THEN (IF ReadsAs(hi, P, x) THEN Nearer(X, lo, hi, P) ELSE lo)
    ELSE IF ReadsAs(hi, P, x) THEN hi
    ELSE <<>>

\* the digits that tell binary64 numbers apart
MaxDigits == 17

\* floor(a / 10^j)
RECURSIVE DropDigits(_, _)
DropDigits(a, j) ==
    IF j = 0 THEN a
    ELSE IF j >= 4 THEN DropDigits(BigDivSmall(a, 10000), j - 4)
    ELSE DropDigits(BigDivSmall(a, 10), j - 1)

\* <<s, q>> with the fewest digits of s, k or more, for which s * 10^q reads
\* as x, where X is the integer value of x, n > 17 the number of its digits
\* and top its first 17 digits
RECURSIVE Shortest(_, _, _, _, _)
Shortest(x, X, n, top, k) ==
    LET lo == DropDigits(top, MaxDigits - k)
        s  == Candidate(x, X, lo, BigAdd(lo, <<1>>), Pow10(n - k))
    IN  IF s # <<>> THEN <<s, n - k>> ELSE Shortest(x, X, n, top, k + 1)

\* the shortest digits of x with the integer value X of n digits
ShortestOf(x, X, n) == Shortest(x, X, n, FloorDiv(X, Pow10(n - MaxDigits)), 1)

\* a digit sequence without its trailing zeros
RECURSIVE StripTrailingZeros(_)
StripTrailingZeros(ds) ==
    IF ds # <<>> /\ ds[Len(ds)] = 0 THEN StripTrailingZeros(SubSeq(ds, 1, Len(ds) - 1)) ELSE ds

\* the digits sd with a point after the first one, if there are more
Mantissa(sd) ==
    IF Len(sd) = 1 THEN Text(sd) ELSE Text(<<sd[1]>>) \o <<".">> \o Text(Tail(sd))

\* d.ddde+n for the digits sd of s in s * 10^q
Exponential(sd, q) ==
    Mantissa(StripTrailingZeros(sd)) \o <<"e", "+">> \o Text(DecimalDigits(BigOf(Len(sd) + q - 1)))

ExponentialOf(sq) == Exponential(DecimalDigits(sq[1]), sq[2])

\* Number::toString for a magnitude of at least 10^21: the shortest digits
\* that read as the number, in exponential notation
LargeToString(x) ==
    ExponentialOf(ShortestOf([x EXCEPT !.s = 1], BigShl(x.m, x.e),
                             DigitCount(BigShl(x.m, x.e))))

\* Number::toString(x) for the numbers toFixed gives to it: NaN, the
\* infinities and the numbers of magnitude 10^21 or more
NumberToString(x) ==
    IF x.k = "NaN" THEN <<"N", "a", "N">>
    ELSE IF x.k = "Infinity"
         THEN (IF x.s < 0 THEN <<"-">> ELSE <<>>) \o <<"I", "n", "f", "i", "n", "i", "t", "y">>
    ELSE (IF x.s < 0 THEN <<"-">> ELSE <<>>) \o LargeToString(x)

\* the integer n for which n / 10^f is nearest to m * 2^e, the larger of
\* two equally near: floor(m * 10^f * 2^e + 1/2), which is 0 when
\* m * 10^f < 2^(-e - 1)
FixedInteger(m, e, f) ==
    IF e >= 0 THEN BigShl(BigMul(m, Pow10(f)), e)
    ELSE IF BitLength(BigMul(m, Pow10(f))) < -e THEN <<>>
    ELSE BigShr(BigAdd(BigMul(m, Pow10(f)), BigShl(<<1>>, -e - 1)), -e)

\* digits filled up with zeros in front to at least n digits
PadZeros(ds, n) == [i \in 1..(n - Len(ds)) |-> 0] \o ds

\* the digits ds with a decimal point before the last f of them
PointBefore(ds, f) ==
    IF f = 0 THEN Text(ds)
    ELSE Text(SubSeq(ds, 1, Len(ds) - f)) \o <<".">> \o Text(SubSeq(ds, Len(ds) - f + 1, Len(ds)))

\* the digits of toFixed for a finite magnitude below 10^21
FixedDigits(m, e, f) == PointBefore(PadZeros(DecimalDigits(FixedInteger(m, e, f)), f + 1), f)

\* ToIntegerOrInfinity of a finite number: its digits after the point
\* dropped; a magnitude of 128 or more, which is outside the range 0..100
\* that toFixed accepts whatever its value, is given as 128
Truncate(a) ==
    IF IsZero(a) THEN 0
    ELSE IF Top(a) > 7 THEN a.s * 128
    ELSE IF a.e >= 0 THEN a.s * a.m[1] * Pow2(a.e)
    ELSE a.s * Limb(BigShr(a.m, -a.e), 1)

\* a returned string
ReturnString(str) == [threw |-> FALSE, error |-> "", value |-> str]

\* a thrown RangeError
ThrowRangeError == [threw |-> TRUE, error |-> "RangeError", value |-> <<>>]

\* x.toFixed(f) for an integer f
toFixedDigits(x, f) ==
    IF f < 0 \/ f > 100 THEN ThrowRangeError
    ELSE IF x.k # "num" \/ AtLeast1e21(x) THEN ReturnString(NumberToString(x))
    ELSE ReturnString((IF x.s < 0 /\ ~IsZero(x) THEN <<"-">> ELSE <<>>)
                      \o FixedDigits(x.m, x.e, f))

\* Number.prototype.toFixed(fractionDigits) on a number x: undefined and NaN
\* count as 0 digits, an infinite number of digits is a RangeError
toFixed(x, fractionDigits) ==
    IF fractionDigits.k = "Infinity" THEN ThrowRangeError
    ELSE IF fractionDigits.k # "num" THEN toFixedDigits(x, 0)
    ELSE toFixedDigits(x, Truncate(fractionDigits))

-----------------------------------------------------------------------------
(* Unit Table *)

TO_BASE_FACTORS ==
    (<<"k","g">> :> [factor |-> Num(1, 1), base |-> <<"k","g">>]) @@
    (<<"l","b">> :> [factor |-> Num(45359237, 100000000), base |-> <<"k","g">>]) @@
    (<<"m">> :> [factor |-> Num(1, 1), base |-> <<"m">>]) @@
    (<<"c","m">> :> [factor |-> Num(1, 100), base |-> <<"m">>]) @@
    (<<"i","n">> :> [factor |-> Num(254, 10000), base |-> <<"m">>]) @@
    (<<"f","t">> :> [factor |-> Num(3048, 10000), base |-> <<"m">>]) @@
    (<<"s">> :> [factor |-> Num(1, 1), base |-> <<"s">>]) @@
    (<<"m","i","n">> :> [factor |-> Num(60, 1), base |-> <<"s">>]) @@
    (<<"m","/","s">> :> [factor |-> Num(1, 1), base |-> <<"m","/","s">>]) @@
    (<<"k","m","/","h">> :> [factor |-> Over(Num(1, 1), Num(36, 10)), base |-> <<"m","/","s">>]) @@
    (<<"m","p","h">> :> [factor |-> Num(44704, 100000), base |-> <<"m","/","s">>]) @@
    (<<"c","o","u","n","t">> :> [factor |-> Num(1, 1), base |-> <<"c","o","u","n","t">>]) @@
    (<<"p","e","r","c","e","n","t">> :> [factor |-> Num(1, 1), base |-> <<"p","e","r","c","e","n","t">>]) @@
    (<<"s","c","o","r","e">> :> [factor |-> Num(1, 1), base |-> <<"s","c","o","r","e">>]) @@
    (<<"r","e","p","s">> :> [factor |-> Num(1, 1), base |-> <<"r","e","p","s">>]) @@
    (<<"%">> :> [factor |-> Num(1, 1), base |-> <<"%">>]) @@
    (<<"l","e","v","e","l">> :> [factor |-> Num(1, 1), base |-> <<"l","e","v","e","l">>])

\* TO_BASE_FACTORS is an object literal, so a property lookup that finds no
\* own key continues on Object.prototype, whose members are these.
ObjectPrototypeKeys ==
    { <<"c","o","n","s","t","r","u","c","t","o","r">>,
      <<"t","o","S","t","r","i","n","g">>,
      <<"t","o","L","o","c","a","l","e","S","t","r","i","n","g">>,
      <<"v","a","l","u","e","O","f">>,
      <<"h","a","s","O","w","n","P","r","o","p","e","r","t","y">>,
      <<"i","s","P","r","o","t","o","t","y","p","e","O","f">>,
      <<"p","r","o","p","e","r","t","y","I","s","E","n","u","m","e","r","a","b","l","e">>,
      <<"_","_","p","r","o","t","o","_","_">>,
      <<"_","_","d","e","f","i","n","e","G","e","t","t","e","r","_","_">>,
      <<"_","_","d","e","f","i","n","e","S","e","t","t","e","r","_","_">>,
      <<"_","_","l","o","o","k","u","p","G","e","t","t","e","r","_","_">>,
      <<"_","_","l","o","o","k","u","p","S","e","t","t","e","r","_","_">> }

\* the units registered in the Unit Table (its own keys)
RegisteredUnits == DOMAIN unitTable

\* TO_BASE_FACTORS[displayUnit]: the entry, an inherited member of
\* Object.prototype (truthy, and without factor or base: reading .factor in
\* an arithmetic context gives NaN, reading .base gives undefined), or
\* undefined (falsy)
Lookup(displayUnit) ==
    IF displayUnit \in DOMAIN unitTable
    THEN [truthy |-> TRUE,
          factor |-> unitTable[displayUnit].factor,
          base   |-> unitTable[displayUnit].base]
    ELSE IF displayUnit \in ObjectPrototypeKeys
    THEN [truthy |-> TRUE, factor |-> NaN, base |-> undefined]
    ELSE [truthy |-> FALSE, factor |-> NaN, base |-> undefined]

-----------------------------------------------------------------------------
(* Conversion Engine *)

\* a normal return of a number
Return(v) == [threw |-> FALSE, error |-> "", value |-> v]

\* throw new Error(message); the message is kept up to its fixed prefix
Throw(message) == [threw |-> TRUE, error |-> message, value |-> NaN]

toBase(value, displayUnit) ==
    LET conversion == Lookup(displayUnit)
    IN  IF ~conversion.truthy THEN Throw("Unknown display unit")
        ELSE Return(Times(value, conversion.factor))

\* fromBase multiplying by the factor
fromBase_multiplies(baseValue, displayUnit) ==
    LET conversion == Lookup(displayUnit)
    IN  IF ~conversion.truthy THEN Throw("Unknown display unit")
        ELSE Return(Times(baseValue, conversion.factor))

fromBase(baseValue, displayUnit) ==
    LET conversion == Lookup(displayUnit)
    IN  IF ~conversion.truthy THEN Throw("Unknown display unit")
        ELSE Return(Over(baseValue, conversion.factor))

\* getBaseUnit returning the unit it was given
getBaseUnit_same(displayUnit) ==
    LET conversion == Lookup(displayUnit)
    IN  IF ~conversion.truthy
        THEN [threw |-> TRUE, error |-> "Unknown display unit", value |-> undefined]
        ELSE [threw |-> FALSE, error |-> "", value |-> displayUnit]

getBaseUnit(displayUnit) ==
    LET conversion == Lookup(displayUnit)
    IN  IF ~conversion.truthy
        THEN [threw |-> TRUE, error |-> "Unknown display unit", value |-> undefined]
        ELSE [threw |-> FALSE, error |-> "", value |-> conversion.base]

\* a normal return of convertUnit, with the conversion functions it called
ReturnAfter(v, calls) == [threw |-> FALSE, error |-> "", value |-> v, calls |-> calls]

\* a throw of convertUnit, with the conversion functions it had called
ThrowAfter(message, calls) == [threw |-> TRUE, error |-> message, value |-> NaN, calls |-> calls]

\* convertUnit without the comparison of the two base units
convertUnit_noBaseCheck(value, fromUnit, toUnit) ==
    LET fromConversion == Lookup(fromUnit)
        toConversion   == Lookup(toUnit)
    IN  IF ~fromConversion.truthy \/ ~toConversion.truthy
        THEN ThrowAfter("Invalid units", <<>>)
        ELSE LET baseValue == toBase(value, fromUnit)
             IN  IF baseValue.threw
                 THEN ThrowAfter(baseValue.error, <<"toBase">>)
                 ELSE LET result == fromBase(baseValue.value, toUnit)
                      IN  IF result.threw
                          THEN ThrowAfter(result.error, <<"toBase", "fromBase">>)
                          ELSE ReturnAfter(result.value, <<"toBase", "fromBase">>)

convertUnit(value, fromUnit, toUnit) ==
    LET fromConversion == Lookup(fromUnit)
        toConversion   == Lookup(toUnit)
    IN  IF ~fromConversion.truthy \/ ~toConversion.truthy
        THEN ThrowAfter("Invalid units", <<>>)
        ELSE IF fromConversion.base # toConversion.base
        THEN ThrowAfter("Cannot convert between different base units", <<>>)
        ELSE LET baseValue == toBase(value, fromUnit)
             IN  IF baseValue.threw
                 THEN ThrowAfter(baseValue.error, <<"toBase">>)
                 ELSE LET result == fromBase(baseValue.value, toUnit)
                      IN  IF result.threw
                          THEN ThrowAfter(result.error, <<"toBase", "fromBase">>)
                          ELSE ReturnAfter(result.value, <<"toBase", "fromBase">>)

\* the error kinds of the specification, by the message the code throws
IsUnknownUnit(r) == r.threw /\ r.error \in {"Unknown display unit", "Invalid units"}

IsIncompatibleUnits(r) == r.threw /\ r.error = "Cannot convert between different base units"

\* what a safe conversion produces: the value it returns (a number or null)
\* and whether it logged an error; it has no throw outside its try block
SafeResult(v, logged) == [threw |-> FALSE, value |-> v, logged |-> logged]

safeConvertToBase(value, displayUnit) ==
    IF value = NullValue \/ value = UndefinedValue \/ isNaN(value)
    THEN SafeResult(NullValue, FALSE)
    ELSE LET r == toBase(value, displayUnit)
         IN  IF r.threw THEN SafeResult(NullValue, TRUE)
             ELSE SafeResult(r.value, FALSE)

safeConvertFromBase(baseValue, displayUnit) ==
    IF baseValue = NullValue \/ baseValue = UndefinedValue \/ isNaN(baseValue)
    THEN SafeResult(NullValue, FALSE)
    ELSE LET r == fromBase(baseValue, displayUnit)
         IN  IF r.threw THEN SafeResult(NullValue, TRUE)
             ELSE SafeResult(r.value, FALSE)

\* a normal return of a boolean, or a throw passed on from toBase / fromBase
Answer(b) == [threw |-> FALSE, error |-> "", value |-> b]

\* validateRoundTrip(value, unit, tolerance = 1e-10): the default stands in
\* for an omitted (undefined) tolerance
validateRoundTrip(value, unit, tolerance) ==
    LET tol       == IF tolerance = UndefinedValue THEN Tolerance1em10 ELSE tolerance
        baseValue == toBase(value, unit)
    IN  IF baseValue.threw THEN baseValue
        ELSE LET backToDisplay == fromBase(baseValue.value, unit)
             IN  IF backToDisplay.threw THEN backToDisplay
                 ELSE Answer(Less(MathAbs(Minus(value, backToDisplay.value)), tol))

-----------------------------------------------------------------------------
(* Unit-String Normalizer *)

\* the comparisons of normalizeUnitString in the order the code makes them:
\* each entry is the canonical unit returned and the strings that select it
AliasTable ==
    << [unit |-> <<"k","g">>,
        aliases |-> { <<"k","g">>, <<"k","i","l","o","g","r","a","m">>,
                      <<"k","i","l","o","g","r","a","m","s">> }],
       [unit |-> <<"l","b">>,
        aliases |-> { <<"l","b">>, <<"l","b","s">>, <<"p","o","u","n","d">>,
                      <<"p","o","u","n","d","s">> }],
       [unit |-> <<"m">>,
        aliases |-> { <<"m">>, <<"m","e","t","e","r">>, <<"m","e","t","e","r","s">>,
                      <<"m","e","t","r","e">>, <<"m","e","t","r","e","s">> }],
       [unit |-> <<"c","m">>,
        aliases |-> { <<"c","m">>, <<"c","e","n","t","i","m","e","t","e","r">>,
                      <<"c","e","n","t","i","m","e","t","e","r","s">>,
                      <<"c","e","n","t","i","m","e","t","r","e">>,
                      <<"c","e","n","t","i","m","e","t","r","e","s">> }],
       [unit |-> <<"i","n">>,
        aliases |-> { <<"i","n">>, <<"i","n","c","h">>, <<"i","n","c","h","e","s">>,
                      <<"\"">> }],
       [unit |-> <<"f","t">>,
        aliases |-> { <<"f","t">>, <<"f","o","o","t">>, <<"f","e","e","t">>, <<"'">> }],
       [unit |-> <<"s">>,
        aliases |-> { <<"s">>, <<"s","e","c">>, <<"s","e","c","o","n","d">>,
                      <<"s","e","c","o","n","d","s">> }],
       [unit |-> <<"m","i","n">>,
        aliases |-> { <<"m","i","n">>, <<"m","i","n","u","t","e">>,
                      <<"m","i","n","u","t","e","s">> }],
       [unit |-> <<"m","/","s">>,
        aliases |-> { <<"m","/","s">>, <<"m","p","s">>,
                      <<"m","e","t","e","r","s","/","s","e","c","o","n","d">>,
                      <<"m","e","t","r","e","s","/","s","e","c","o","n","d">> }],
       [unit |-> <<"k","m","/","h">>,
        aliases |-> { <<"k","m","/","h">>, <<"k","m","h">>, <<"k","p","h">>,
                      <<"k","i","l","o","m","e","t","e","r","s","/","h","o","u","r">> }],
       [unit |-> <<"m","p","h">>,
        aliases |-> { <<"m","p","h">>, <<"m","i","l","e","s","/","h","o","u","r">>,
                      <<"m","i","l","e","s"," ","p","e","r"," ","h","o","u","r">> }] >>

\* normalizeUnitString comparing the trimmed string without lower-casing it
normalizeUnitString_caseSensitive(unit) ==
    LET normalized == trim(unit)
        matches    == {i \in 1..Len(AliasTable) : normalized \in AliasTable[i].aliases}
    IN  IF matches = {} THEN unit
        ELSE AliasTable[CHOOSE i \in matches : \A j \in matches : i <= j].unit

normalizeUnitString(unit) ==
    LET normalized == trim(toLowerCase(unit))
        matches    == {i \in 1..Len(AliasTable) : normalized \in AliasTable[i].aliases}
    IN  IF matches = {} THEN unit
        ELSE AliasTable[CHOOSE i \in matches : \A j \in matches : i <= j].unit

-----------------------------------------------------------------------------
(* Legacy Migration Pipeline *)

\* !units || units.trim() === ''
NoUnits(units) == units = null \/ units = undefined \/ units = <<>> \/ trim(units) = <<>>

\* what one run of migrateTestResult produces: the record it returns, the
\* functions it called and whether it logged a warning
Migrated(result, value_base, calls, warned) ==
    [value |-> [result_id  |-> result.result_id,
                value_base |-> value_base,
                value_raw  |-> result.value,
                unit_raw   |-> result.units],
     calls |-> calls, warned |-> warned]

\* migrateTestResult storing the normalized unit as unit_raw
migrateTestResultRun_normalizedRaw(result) ==
    IF NoUnits(result.units)
    THEN Migrated(result, result.value, <<>>, FALSE)
    ELSE LET normalizedUnit == normalizeUnitString(result.units)
             converted      == toBase(result.value, normalizedUnit)
         IN  IF ~converted.threw
             THEN [Migrated(result, converted.value, <<"normalizeUnitString", "toBase">>, FALSE)
                      EXCEPT !.value.unit_raw = normalizedUnit]
             ELSE Migrated(result, result.value, <<"normalizeUnitString", "toBase">>, TRUE)

\* migrateTestResult testing only !units, without units.trim() === ''
migrateTestResultRun_noTrim(result) ==
    IF result.units \in {null, undefined, <<>>}
    THEN Migrated(result, result.value, <<>>, FALSE)
    ELSE LET normalizedUnit == normalizeUnitString(result.units)
             converted      == toBase(result.value, normalizedUnit)
         IN  IF ~converted.threw
             THEN Migrated(result, converted.value, <<"normalizeUnitString", "toBase">>, FALSE)
             ELSE Migrated(result, result.value, <<"normalizeUnitString", "toBase">>, TRUE)

\* migrateTestResult storing the converted value as value_raw
migrateTestResultRun_convertedRaw(result) ==
    IF NoUnits(result.units)
    THEN Migrated(result, result.value, <<>>, FALSE)
    ELSE LET normalizedUnit == normalizeUnitString(result.units)
             converted      == toBase(result.value, normalizedUnit)
         IN  IF ~converted.threw
             THEN [Migrated(result, converted.value, <<"normalizeUnitString", "toBase">>, FALSE)
                      EXCEPT !.value.value_raw = converted.value]
             ELSE Migrated(result, result.value, <<"normalizeUnitString", "toBase">>, TRUE)

\* the body of migrateTestResult
migrateTestResultRun(result) ==
    IF NoUnits(result.units)
    THEN Migrated(result, result.value, <<>>, FALSE)
    ELSE LET normalizedUnit == normalizeUnitString(result.units)
             converted      == toBase(result.value, normalizedUnit)
         IN  IF ~converted.threw
             THEN Migrated(result, converted.value, <<"normalizeUnitString", "toBase">>, FALSE)
             ELSE Migrated(result, result.value, <<"normalizeUnitString", "toBase">>, TRUE)

migrateTestResult(result) == migrateTestResultRun(result).value

\* results.map(f) with each result put in front of the output
RECURSIVE migrateTestResultsFrom_reversed(_, _, _)
migrateTestResultsFrom_reversed(results, i, out) ==
    IF i > Len(results) THEN out
    ELSE migrateTestResultsFrom_reversed(results, i + 1,
                                         <<migrateTestResult(results[i])>> \o out)

\* results.map(f): f applied to the elements from first to last, each result
\* appended to the output
RECURSIVE migrateTestResultsFrom(_, _, _)
migrateTestResultsFrom(results, i, out) ==
    IF i > Len(results) THEN out
    ELSE migrateTestResultsFrom(results, i + 1, Append(out, migrateTestResult(results[i])))

migrateTestResults(results) == migrateTestResultsFrom(results, 1, <<>>)

\* the checks that validateMigration makes on a pair of equal identifiers,
\* made on any pair
checkedFurther(acc, orig, mig, i) ==
    LET isUnchanged == LessThan1em10(MathAbs(Minus(orig.value, mig.value_base)))
        ratio       == Over(mig.value_base, orig.value)
        suspicious  == Less(ratio, Num(1, 1000)) \/ Less(Num(1000, 1), ratio)
        valueRawBad == ~StrictEquals(mig.value_raw, orig.value)
        unitRawBad  == mig.unit_raw # orig.units
        errs1       == IF valueRawBad
                       THEN Append(acc.errors,
                                   [kind |-> "Audit trail mismatch: value_raw", index |-> i])
                       ELSE acc.errors
        errs2       == IF unitRawBad
                       THEN Append(errs1,
                                   [kind |-> "Audit trail mismatch: unit_raw", index |-> i])
                       ELSE errs1
    IN  [errors    |-> errs2,
         warnings  |-> IF ~isUnchanged /\ suspicious
                       THEN Append(acc.warnings,
                                   [kind |-> "Suspicious conversion", index |-> i])
                       ELSE acc.warnings,
         converted |-> acc.converted + (IF isUnchanged THEN 0 ELSE 1),
         unchanged |-> acc.unchanged + (IF isUnchanged THEN 1 ELSE 0),
         failed    |-> acc.failed + (IF valueRawBad THEN 1 ELSE 0)
                                  + (IF unitRawBad THEN 1 ELSE 0)]

\* validateMigration without the continue after an identifier mismatch
validateRecord_noContinue(acc, orig, mig, i) ==
    IF orig.result_id # mig.result_id
    THEN checkedFurther([acc EXCEPT !.errors = Append(@, [kind |-> "ID mismatch", index |-> i]),
                                    !.failed = @ + 1],
                        orig, mig, i)
    ELSE checkedFurther(acc, orig, mig, i)

\* validateMigration counting a record with two audit-trail errors as one
\* failure
validateRecord_failedRecords(acc, orig, mig, i) ==
    IF orig.result_id # mig.result_id
    THEN [acc EXCEPT !.errors = Append(@, [kind |-> "ID mismatch", index |-> i]),
                     !.failed = @ + 1]
    ELSE
      LET isUnchanged == LessThan1em10(MathAbs(Minus(orig.value, mig.value_base)))
          ratio       == Over(mig.value_base, orig.value)
          suspicious  == Less(ratio, Num(1, 1000)) \/ Less(Num(1000, 1), ratio)
          valueRawBad == ~StrictEquals(mig.value_raw, orig.value)
          unitRawBad  == mig.unit_raw # orig.units
          errs1       == IF valueRawBad
                         THEN Append(acc.errors,
                                     [kind |-> "Audit trail mismatch: value_raw", index |-> i])
                         ELSE acc.errors
          errs2       == IF unitRawBad
                         THEN Append(errs1,
                                     [kind |-> "Audit trail mismatch: unit_raw", index |-> i])
                         ELSE errs1
      IN  [errors    |-> errs2,
           warnings  |-> IF ~isUnchanged /\ suspicious
                         THEN Append(acc.warnings,
                                     [kind |-> "Suspicious conversion", index |-> i])
                         ELSE acc.warnings,
           converted |-> acc.converted + (IF isUnchanged THEN 0 ELSE 1),
           unchanged |-> acc.unchanged + (IF isUnchanged THEN 1 ELSE 0),
           failed    |-> acc.failed + (IF valueRawBad \/ unitRawBad THEN 1 ELSE 0)]

\* validateMigration comparing the magnitude of the ratio with the two limits
validateRecord_absRatio(acc, orig, mig, i) ==
    IF orig.result_id # mig.result_id
    THEN [acc EXCEPT !.errors = Append(@, [kind |-> "ID mismatch", index |-> i]),
                     !.failed = @ + 1]
    ELSE
      LET isUnchanged == LessThan1em10(MathAbs(Minus(orig.value, mig.value_base)))
          ratio       == Over(mig.value_base, orig.value)
          suspicious  == Less(MathAbs(ratio), Num(1, 1000)) \/ Less(Num(1000, 1), MathAbs(ratio))
          valueRawBad == ~StrictEquals(mig.value_raw, orig.value)
          unitRawBad  == mig.unit_raw # orig.units
          errs1       == IF valueRawBad
                         THEN Append(acc.errors,
                                     [kind |-> "Audit trail mismatch: value_raw", index |-> i])
                         ELSE acc.errors
          errs2       == IF unitRawBad
                         THEN Append(errs1,
                                     [kind |-> "Audit trail mismatch: unit_raw", index |-> i])
                         ELSE errs1
      IN  [errors    |-> errs2,
           warnings  |-> IF ~isUnchanged /\ suspicious
                         THEN Append(acc.warnings,
                                     [kind |-> "Suspicious conversion", index |-> i])
                         ELSE acc.warnings,
           converted |-> acc.converted + (IF isUnchanged THEN 0 ELSE 1),
           unchanged |-> acc.unchanged + (IF isUnchanged THEN 1 ELSE 0),
           failed    |-> acc.failed + (IF valueRawBad THEN 1 ELSE 0)
                                    + (IF unitRawBad THEN 1 ELSE 0)]

\* validateMigration not counting an identifier mismatch as failed
validateRecord_idNotFailed(acc, orig, mig, i) ==
    IF orig.result_id # mig.result_id
    THEN [acc EXCEPT !.errors = Append(@, [kind |-> "ID mismatch", index |-> i])]
    ELSE
      LET isUnchanged == LessThan1em10(MathAbs(Minus(orig.value, mig.value_base)))
          ratio       == Over(mig.value_base, orig.value)
          suspicious  == Less(ratio, Num(1, 1000)) \/ Less(Num(1000, 1), ratio)
          valueRawBad == ~StrictEquals(mig.value_raw, orig.value)
          unitRawBad  == mig.unit_raw # orig.units
          errs1       == IF valueRawBad
                         THEN Append(acc.errors,
                                     [kind |-> "Audit trail mismatch: value_raw", index |-> i])
                         ELSE acc.errors
          errs2       == IF unitRawBad
                         THEN Append(errs1,
                                     [kind |-> "Audit trail mismatch: unit_raw", index |-> i])
                         ELSE errs1
      IN  [errors    |-> errs2,
           warnings  |-> IF ~isUnchanged /\ suspicious
                         THEN Append(acc.warnings,
                                     [kind |-> "Suspicious conversion", index |-> i])
                         ELSE acc.warnings,
           converted |-> acc.converted + (IF isUnchanged THEN 0 ELSE 1),
           unchanged |-> acc.unchanged + (IF isUnchanged THEN 1 ELSE 0),
           failed    |-> acc.failed + (IF valueRawBad THEN 1 ELSE 0)
                                    + (IF unitRawBad THEN 1 ELSE 0)]

\* one iteration of the loop of validateMigration: the pair at (0-based)
\* index i checked, and the errors, warnings and counters updated
validateRecord(acc, orig, mig, i) ==
    IF orig.result_id # mig.result_id
    THEN [acc EXCEPT !.errors = Append(@, [kind |-> "ID mismatch", index |-> i]),
                     !.failed = @ + 1]
    ELSE
      LET isUnchanged == LessThan1em10(MathAbs(Minus(orig.value, mig.value_base)))
          ratio       == Over(mig.value_base, orig.value)
          suspicious  == Less(ratio, Num(1, 1000)) \/ Less(Num(1000, 1), ratio)
          valueRawBad == ~StrictEquals(mig.value_raw, orig.value)
          unitRawBad  == mig.unit_raw # orig.units
          errs1       == IF valueRawBad
                         THEN Append(acc.errors,
                                     [kind |-> "Audit trail mismatch: value_raw", index |-> i])
                         ELSE acc.errors
          errs2       == IF unitRawBad
                         THEN Append(errs1,
                                     [kind |-> "Audit trail mismatch: unit_raw", index |-> i])
                         ELSE errs1
      IN  [errors    |-> errs2,
           warnings  |-> IF ~isUnchanged /\ suspicious
                         THEN Append(acc.warnings,
                                     [kind |-> "Suspicious conversion", index |-> i])
                         ELSE acc.warnings,
           converted |-> acc.converted + (IF isUnchanged THEN 0 ELSE 1),
           unchanged |-> acc.unchanged + (IF isUnchanged THEN 1 ELSE 0),
           failed    |-> acc.failed + (IF valueRawBad THEN 1 ELSE 0)
                                    + (IF unitRawBad THEN 1 ELSE 0)]

\* the loop of validateMigration from (1-based) position i on
RECURSIVE validateFrom(_, _, _, _)
validateFrom(original, migrated, i, acc) ==
    IF i > Len(original) THEN acc
    ELSE validateFrom(original, migrated, i + 1,
                      validateRecord(acc, original[i], migrated[i], i - 1))

\* the report of validateMigration over the accumulated loop results
Report(original, acc, success) ==
    [success  |-> success,
     errors   |-> acc.errors,
     warnings |-> acc.warnings,
     stats    |-> [total |-> Len(original), converted |-> acc.converted,
                   unchanged |-> acc.unchanged, failed |-> acc.failed]]

\* the report of validateMigration for sequences of different lengths
LengthMismatchReport(original, failed) ==
    [success  |-> FALSE,
     errors   |-> <<[kind |-> "Length mismatch", index |-> -1]>>,
     warnings |-> <<>>,
     stats    |-> [total |-> Len(original), converted |-> 0,
                   unchanged |-> 0, failed |-> failed]]

\* the accumulators of validateMigration before the loop
NoneChecked ==
    [errors |-> <<>>, warnings |-> <<>>, converted |-> 0, unchanged |-> 0, failed |-> 0]

\* validateMigration reporting the length of migrated as the number failed
validateMigration_failedMigrated(original, migrated) ==
    IF Len(original) # Len(migrated)
    THEN LengthMismatchReport(original, Len(migrated))
    ELSE LET acc == validateFrom(original, migrated, 1, NoneChecked)
         IN  Report(original, acc, Len(acc.errors) = 0)

\* validateMigration counting warnings against success
validateMigration_warningsFail(original, migrated) ==
    IF Len(original) # Len(migrated)
    THEN LengthMismatchReport(original, Len(original))
    ELSE LET acc == validateFrom(original, migrated, 1, NoneChecked)
         IN  Report(original, acc, Len(acc.errors) = 0 /\ Len(acc.warnings) = 0)

validateMigration(original, migrated) ==
    IF Len(original) # Len(migrated)
    THEN LengthMismatchReport(original, Len(original))
    ELSE LET acc == validateFrom(original, migrated, 1, NoneChecked)
         IN  Report(original, acc, Len(acc.errors) = 0)

-----------------------------------------------------------------------------
(* Metric Classifier *)

\* String.prototype.includes
includes(str, searchString) ==
    \E i \in 0..(Len(str) - Len(searchString)) :
        SubSeq(str, i + 1, i + Len(searchString)) = searchString

\* metricKey.includes(w) for some w of words (a chain of || or Array.some)
HasAny(metricKey, words) == \E w \in words : includes(metricKey, w)

scoreMetrics ==
    { <<"d","e","e","p","_","s","q","u","a","t">>,
      <<"o","v","e","r","h","e","a","d","_","s","q","u","a","t">>,
      <<"s","h","o","u","l","d","e","r","_","m","o","b","i","l","i","t","y">>,
      <<"t","r","u","n","k","_","s","t","a","b","i","l","i","t","y">>,
      <<"r","o","t","a","r","y","_","s","t","a","b","i","l","i","t","y">> }

countMetrics ==
    { <<"p","u","s","h","_","u","p","s">>, <<"s","i","t","_","u","p","s">>,
      <<"a","t","t","e","m","p","t","s">> }

repsMetrics ==
    { <<"m","a","x","_","r","e","p","s">>,
      <<"t","o","t","a","l","_","r","e","p","s">> }

massMetrics ==
    { <<"b","o","d","y","_","w","e","i","g","h","t">>,
      <<"m","a","x","_","w","e","i","g","h","t">>, <<"l","o","a","d">> }

lengthMetrics ==
    { <<"h","e","i","g","h","t">>, <<"r","e","a","c","h">>,
      <<"a","r","m","_","s","p","a","n">>,
      <<"l","e","g","_","l","e","n","g","t","h">>,
      <<"t","o","r","s","o","_","l","e","n","g","t","h">> }

distanceMetrics ==
    { <<"v","e","r","t","i","c","a","l","_","j","u","m","p">>,
      <<"b","r","o","a","d","_","j","u","m","p">>,
      <<"s","p","r","i","n","t","_","d","i","s","t","a","n","c","e">>,
      <<"t","h","r","o","w","_","d","i","s","t","a","n","c","e">> }

timeMetrics ==
    { <<"s","p","r","i","n","t","_","t","i","m","e">>,
      <<"r","e","a","c","t","i","o","n","_","t","i","m","e">>,
      <<"h","o","l","d","_","t","i","m","e">> }

speedMetrics ==
    { <<"m","a","x","_","s","p","e","e","d">>,
      <<"a","v","e","r","a","g","e","_","s","p","e","e","d">> }

\* getMetricType testing distance/jump before height/reach/span
getMetricType_distanceFirst(metricKey) ==
    IF HasAny(metricKey, { <<"s","c","o","r","e">>, <<"f","m","s">>, <<"r","a","t","i","n","g">> }) THEN "score"
    ELSE IF HasAny(metricKey, { <<"c","o","u","n","t">>, <<"n","u","m","b","e","r">> }) THEN "count"
    ELSE IF HasAny(metricKey, { <<"p","e","r","c","e","n","t">>, <<"%">> }) THEN "percent"
    ELSE IF HasAny(metricKey, { <<"r","e","p","s">>, <<"r","e","p","e","t","i","t","i","o","n","s">> }) THEN "reps"
    ELSE IF HasAny(metricKey, { <<"w","e","i","g","h","t">>, <<"m","a","s","s">> }) THEN "mass"
    ELSE IF HasAny(metricKey, { <<"d","i","s","t","a","n","c","e">>, <<"j","u","m","p">> }) THEN "distance"
    ELSE IF HasAny(metricKey, { <<"h","e","i","g","h","t">>, <<"r","e","a","c","h">>, <<"s","p","a","n">> }) THEN "length"
    ELSE IF HasAny(metricKey, { <<"t","i","m","e">>, <<"d","u","r","a","t","i","o","n">> }) THEN "time"
    ELSE IF HasAny(metricKey, { <<"s","p","e","e","d">>, <<"v","e","l","o","c","i","t","y">> }) THEN "speed"
    ELSE IF HasAny(metricKey, scoreMetrics) THEN "score"
    ELSE IF HasAny(metricKey, countMetrics) THEN "count"
    ELSE IF HasAny(metricKey, repsMetrics) THEN "reps"
    ELSE IF HasAny(metricKey, massMetrics) THEN "mass"
    ELSE IF HasAny(metricKey, lengthMetrics) THEN "length"
    ELSE IF HasAny(metricKey, distanceMetrics) THEN "distance"
    ELSE IF HasAny(metricKey, timeMetrics) THEN "time"
    ELSE IF HasAny(metricKey, speedMetrics) THEN "speed"
    ELSE "distance"

\* getMetricType of the units module tested by units.test.ts
getMetricType(metricKey) ==
    IF HasAny(metricKey, { <<"s","c","o","r","e">>, <<"f","m","s">>, <<"r","a","t","i","n","g">> }) THEN "score"
    ELSE IF HasAny(metricKey, { <<"c","o","u","n","t">>, <<"n","u","m","b","e","r">> }) THEN "count"
    ELSE IF HasAny(metricKey, { <<"p","e","r","c","e","n","t">>, <<"%">> }) THEN "percent"
    ELSE IF HasAny(metricKey, { <<"r","e","p","s">>, <<"r","e","p","e","t","i","t","i","o","n","s">> }) THEN "reps"
    ELSE IF HasAny(metricKey, { <<"w","e","i","g","h","t">>, <<"m","a","s","s">> }) THEN "mass"
    ELSE IF HasAny(metricKey, { <<"h","e","i","g","h","t">>, <<"r","e","a","c","h">>, <<"s","p","a","n">> }) THEN "length"
    ELSE IF HasAny(metricKey, { <<"d","i","s","t","a","n","c","e">>, <<"j","u","m","p">> }) THEN "distance"
    ELSE IF HasAny(metricKey, { <<"t","i","m","e">>, <<"d","u","r","a","t","i","o","n">> }) THEN "time"
    ELSE IF HasAny(metricKey, { <<"s","p","e","e","d">>, <<"v","e","l","o","c","i","t","y">> }) THEN "speed"
    ELSE IF HasAny(metricKey, scoreMetrics) THEN "score"
    ELSE IF HasAny(metricKey, countMetrics) THEN "count"
    ELSE IF HasAny(metricKey, repsMetrics) THEN "reps"
    ELSE IF HasAny(metricKey, massMetrics) THEN "mass"
    ELSE IF HasAny(metricKey, lengthMetrics) THEN "length"
    ELSE IF HasAny(metricKey, distanceMetrics) THEN "distance"
    ELSE IF HasAny(metricKey, timeMetrics) THEN "time"
    ELSE IF HasAny(metricKey, speedMetrics) THEN "speed"
    ELSE "distance"

\* getMetricType of the build dist/units.js (and of the units.ts source it was
\* compiled from), which has no length family
getMetricTypeDistUnits(metricKey) ==
    IF HasAny(metricKey, { <<"w","e","i","g","h","t">>, <<"m","a","s","s">> }) THEN "mass"
    ELSE IF HasAny(metricKey, { <<"h","e","i","g","h","t">>, <<"d","i","s","t","a","n","c","e">>, <<"j","u","m","p">> }) THEN "distance"
    ELSE IF HasAny(metricKey, { <<"t","i","m","e">>, <<"d","u","r","a","t","i","o","n">> }) THEN "time"
    ELSE IF HasAny(metricKey, { <<"s","p","e","e","d">>, <<"v","e","l","o","c","i","t","y">> }) THEN "speed"
    ELSE IF HasAny(metricKey, { <<"b","o","d","y","_","w","e","i","g","h","t">>, <<"m","a","x","_","w","e","i","g","h","t">>, <<"l","o","a","d">> }) THEN "mass"
    ELSE IF HasAny(metricKey, { <<"v","e","r","t","i","c","a","l","_","j","u","m","p">>, <<"b","r","o","a","d","_","j","u","m","p">>, <<"r","e","a","c","h">>, <<"h","e","i","g","h","t">> }) THEN "distance"
    ELSE IF HasAny(metricKey, { <<"s","p","r","i","n","t","_","t","i","m","e">>, <<"r","e","a","c","t","i","o","n","_","t","i","m","e">>, <<"h","o","l","d","_","t","i","m","e">> }) THEN "time"
    ELSE IF HasAny(metricKey, { <<"m","a","x","_","s","p","e","e","d">>, <<"a","v","e","r","a","g","e","_","s","p","e","e","d">> }) THEN "speed"
    ELSE "distance"

-----------------------------------------------------------------------------
(* Preference Resolver *)

\* a preference set is a function from family names to units; a unit
\* descriptor (baseUnitRef) is [present |-> FALSE] when none is given, and
\* otherwise carries present = TRUE, its key and its family

DEFAULT_PREFERENCES ==
    [mass |-> <<"k","g">>, distance |-> <<"m">>, length |-> <<"c","m">>,
     time |-> <<"s">>, speed |-> <<"m","/","s">>, count |-> <<"c","o","u","n","t">>,
     percent |-> <<"p","e","r","c","e","n","t">>, score |-> <<"s","c","o","r","e">>,
     reps |-> <<"r","e","p","s">>]

\* preferences[name] with 'm' in place of undefined for a missing entry
Property_defaultM(preferences, name) ==
    IF name \in DOMAIN preferences THEN preferences[name] ELSE <<"m">>

\* preferences[name] / preferences.name: undefined when there is no entry
Property(preferences, name) ==
    IF name \in DOMAIN preferences THEN preferences[name] ELSE undefined

getDisplayUnit(metricType, preferences) == Property(preferences, metricType)

\* isNonConvertibleUnit without level
isNonConvertibleUnit_noLevel(unit) ==
    unit \in { <<"c","o","u","n","t">>, <<"p","e","r","c","e","n","t">>,
               <<"s","c","o","r","e">>, <<"r","e","p","s">>, <<"%">> }

isNonConvertibleUnit(unit) ==
    unit \in { <<"c","o","u","n","t">>, <<"p","e","r","c","e","n","t">>,
               <<"s","c","o","r","e">>, <<"r","e","p","s">>, <<"%">>,
               <<"l","e","v","e","l">> }

\* a value is truthy as a string: not undefined, not null and not empty
Truthy(str) == str # undefined /\ str # null /\ str # <<>>

\* unitKey in TO_BASE_FACTORS: an own key or one inherited from
\* Object.prototype (undefined and null name no property of either)
In_TO_BASE_FACTORS(unitKey) ==
    unitKey \in DOMAIN unitTable \/ unitKey \in ObjectPrototypeKeys

\* baseUnitRef?.family
FamilyOf(baseUnitRef) == IF baseUnitRef.present THEN baseUnitRef.family ELSE "undefined"

\* baseUnitRef?.key || apiUnit
UnitKey(apiUnit, baseUnitRef) ==
    IF baseUnitRef.present /\ Truthy(baseUnitRef.key) THEN baseUnitRef.key ELSE apiUnit

\* getTestDisplayUnit using the distance preference for the length family
getTestDisplayUnit_lengthAsDistance(apiUnit, baseUnitRef, preferences) ==
    LET unitKey == UnitKey(apiUnit, baseUnitRef)
        family  == FamilyOf(baseUnitRef)
    IN  IF isNonConvertibleUnit(unitKey) THEN unitKey
        ELSE IF family = "length" THEN Property(preferences, "distance")
        ELSE IF family = "distance" THEN Property(preferences, "distance")
        ELSE IF family = "mass" \/ family = "weight" THEN Property(preferences, "mass")
        ELSE IF family = "time" THEN Property(preferences, "time")
        ELSE IF family = "speed" THEN Property(preferences, "speed")
        ELSE IF (family = "count" \/ family = "percent") /\ Truthy(unitKey) THEN unitKey
        ELSE IF In_TO_BASE_FACTORS(unitKey) THEN unitKey
        ELSE <<"m">>

getTestDisplayUnit(apiUnit, baseUnitRef, preferences) ==
    LET unitKey == UnitKey(apiUnit, baseUnitRef)
        family  == FamilyOf(baseUnitRef)
    IN  IF isNonConvertibleUnit(unitKey) THEN unitKey
        ELSE IF family = "length" THEN Property(preferences, "length")
        ELSE IF family = "distance" THEN Property(preferences, "distance")
        ELSE IF family = "mass" \/ family = "weight" THEN Property(preferences, "mass")
        ELSE IF family = "time" THEN Property(preferences, "time")
        ELSE IF family = "speed" THEN Property(preferences, "speed")
        ELSE IF (family = "count" \/ family = "percent") /\ Truthy(unitKey) THEN unitKey
        ELSE IF In_TO_BASE_FACTORS(unitKey) THEN unitKey
        ELSE <<"m">>

-----------------------------------------------------------------------------
(* Formatter *)

\* the character U+2014 (em dash)
EmDash == "U+2014"

\* formatValue(baseValue, displayUnit, precision = 2): the template
\* `${displayValue.toFixed(precision)} ${displayUnit}`
formatValue(baseValue, displayUnit, precision) ==
    LET displayValue == fromBase(baseValue, displayUnit)
        fixed == toFixed(displayValue.value,
                         IF precision = UndefinedValue THEN NumberOf(2) ELSE precision)
    IN  IF displayValue.threw THEN displayValue
        ELSE IF fixed.threw THEN fixed
        ELSE ReturnString(fixed.value \o <<" ">> \o displayUnit)

\* a returned FormattedValue
Formatted(displayValue, formattedValue, unit) ==
    [threw |-> FALSE, error |-> "",
     value |-> [displayValue |-> displayValue, formattedValue |-> formattedValue,
                unit |-> unit]]

\* the non-null branch of formatBaseValue after its two calls
formatBaseValueOf(displayValue, formattedValue, unit) ==
    IF displayValue.threw THEN displayValue
    ELSE IF formattedValue.threw THEN formattedValue
    ELSE Formatted(displayValue.value, formattedValue.value, unit)

\* formatBaseValue without the isNaN test
formatBaseValueIn_noNaN(baseValue, unit, precision) ==
    IF baseValue = NullValue \/ baseValue = UndefinedValue
    THEN Formatted(NullValue, <<EmDash>>, unit)
    ELSE formatBaseValueOf(fromBase(baseValue, unit),
                           formatValue(baseValue, unit, precision), unit)

\* formatBaseValue with the unit resolved, the same way in both branches
formatBaseValueIn(baseValue, unit, precision) ==
    IF baseValue = NullValue \/ baseValue = UndefinedValue \/ isNaN(baseValue)
    THEN Formatted(NullValue, <<EmDash>>, unit)
    ELSE formatBaseValueOf(fromBase(baseValue, unit),
                           formatValue(baseValue, unit, precision), unit)

\* the preferences parameter with its default: preferences = DEFAULT_PREFERENCES
PreferencesOr(preferences) ==
    IF preferences.given THEN preferences.value ELSE DEFAULT_PREFERENCES

\* formatBaseValue taking the unit from the default preferences
formatBaseValue_defaultUnit(baseValue, metricKey, preferences, precision) ==
    formatBaseValueIn(baseValue,
                      getDisplayUnit(getMetricType(metricKey), DEFAULT_PREFERENCES),
                      precision)

\* formatBaseValue(baseValue, metricKey, preferences = DEFAULT_PREFERENCES, precision)
formatBaseValue(baseValue, metricKey, preferences, precision) ==
    formatBaseValueIn(baseValue,
                      getDisplayUnit(getMetricType(metricKey), PreferencesOr(preferences)),
                      precision)

-----------------------------------------------------------------------------
(* Preference Provider *)

\* React keeps the state of a component in cells (useState); the component
\* reads them when it is rendered.  updatePreferences calls two setters, one
\* after the other: setPreferences with a value, which replaces the cell,
\* and setUnitsVersion with the function prev => prev + 1.  When the
\* component is rendered after a setter call is React's choice, and the
\* library does not fix the React it runs with:
\*   - deferred (a React event handler, or a root that batches every
\*     update): a setter call queues its update and returns; the component
\*     is rendered once after the handler has returned, with every queued
\*     update applied in order;
\*   - immediate (a call from a timer or a promise on a root that batches
\*     only in event handlers): the component is rendered inside each
\*     setter call, so it is rendered between setPreferences and
\*     setUnitsVersion with the new preferences and the version as it was.
\* Both are modelled.  The updatePreferences that consumers call is the
\* closure made by the last render, and the preferences it reads are those
\* of that render; consumers do not call it while they are rendered.

\* no provider is mounted; position is "idle" when no call of
\* updatePreferences is in progress and "setUnitsVersion" when one has
\* returned from setPreferences and not yet called setUnitsVersion
NotMounted ==
    [mounted |-> FALSE, preferences |-> <<>>, unitsVersion |-> 0,
     queuedPreferences |-> <<>>, queuedIncrements |-> 0,
     position |-> "idle", notified |-> <<>>, updates |-> <<>>]

\* DEFAULT_PREFERENCES of the units module that the provider imports
\* (./units): four families
units_1_DEFAULT_PREFERENCES ==
    [mass |-> <<"k","g">>, distance |-> <<"m">>, time |-> <<"s">>,
     speed |-> <<"m","/","s">>]

\* the initialPreferences property with its default:
\* initialPreferences = DEFAULT_PREFERENCES
InitialPreferencesOr(initialPreferences) ==
    IF initialPreferences.given THEN initialPreferences.value
    ELSE units_1_DEFAULT_PREFERENCES

\* the first render: useState(initialPreferences) and useState(1)
Mounted(initialPreferences) ==
    [mounted |-> TRUE, preferences |-> initialPreferences, unitsVersion |-> 1,
     queuedPreferences |-> <<>>, queuedIncrements |-> 0,
     position |-> "idle", notified |-> <<>>, updates |-> <<>>]

\* { ...preferences, ...newPrefs }
Spread(preferences, newPrefs) ==
    [f \in DOMAIN preferences \cup DOMAIN newPrefs |->
        IF f \in DOMAIN newPrefs THEN newPrefs[f] ELSE preferences[f]]

\* updatePreferences(newPrefs) of the last render, with or without an
\* onPreferencesChange callback, when React defers the render: both setter
\* calls queue their update
updatePreferences(p, newPrefs, hasCallback) ==
    [p EXCEPT !.queuedPreferences = Append(@, Spread(p.preferences, newPrefs)),
              !.queuedIncrements = @ + 1,
              !.notified = IF hasCallback
                           THEN Append(@, Spread(p.preferences, newPrefs))
                           ELSE @,
              !.updates = Append(@, newPrefs)]

\* the deferred render: the last queued value replaces the preferences,
\* every queued increment is applied to the version
Rendered(p) ==
    [p EXCEPT !.preferences = IF p.queuedPreferences = <<>> THEN @
                              ELSE p.queuedPreferences[Len(p.queuedPreferences)],
              !.unitsVersion = @ + p.queuedIncrements,
              !.queuedPreferences = <<>>,
              !.queuedIncrements = 0]

\* updatePreferences(newPrefs) of the last render up to the return of
\* setPreferences(updatedPrefs), when React renders inside the setter call:
\* the provider has been rendered with updatedPrefs (a new object, so the
\* render is never skipped) and with the version as it was
updatePreferencesToSetUnitsVersion(p, newPrefs) ==
    [p EXCEPT !.preferences = Spread(p.preferences, newPrefs),
              !.position = "setUnitsVersion",
              !.updates = Append(@, newPrefs)]

\* the rest of that call: setUnitsVersion(prev => prev + 1), inside which
\* the provider is rendered again, and onPreferencesChange?.(updatedPrefs);
\* updatedPrefs is what the render in between has made the preferences
updatePreferencesFromSetUnitsVersion(p, hasCallback) ==
    [p EXCEPT !.unitsVersion = @ + 1,
              !.position = "idle",
              !.notified = IF hasCallback THEN Append(@, p.preferences) ELSE @]

\* the value the provider gives to its consumers
ContextValue(p) == [preferences |-> p.preferences, unitsVersion |-> p.unitsVersion]

-----------------------------------------------------------------------------
(* Inputs *)

\* the capital letters A to Z
CapitalLetters ==
    { "A", "B", "C", "D", "E", "F", "G", "H", "I", "J", "K", "L", "M",
      "N", "O", "P", "Q", "R", "S", "T", "U", "V", "W", "X", "Y", "Z" }

\* a string with each of its letters a to z replaced by the capital letter
\* of which it is the lower case: a way of writing a unit that
\* normalizeUnitString is given
InCapitals(str) ==
    [i \in 1..Len(str) |->
        IF \E c \in CapitalLetters : LowerCaseImage[c] = <<str[i]>>
        THEN CHOOSE c \in CapitalLetters : LowerCaseImage[c] = <<str[i]>>
        ELSE str[i]]

\* every string the normalizer compares against
AllAliases == UNION {AliasTable[i].aliases : i \in 1..Len(AliasTable)}

\* a string as given, in capitals, with its first letter in capitals, and
\* surrounded by white space
Variants(str) ==
    { str,
      InCapitals(str),
      InCapitals(SubSeq(str, 1, 1)) \o SubSeq(str, 2, Len(str)),
      <<" ">> \o str \o <<" ">>,
      <<"\t">> \o InCapitals(str) \o <<"\n">> }

\* unit strings that are neither registered nor an alias
UnregisteredUnits ==
    { <<"i","n","v","a","l","i","d">>, <<"s","t","o","n","e">>, <<"k","g",".">>,
      <<"K","G">>, <<" ","k","g">>, <<"l","b","s">>, <<"C","o","u","n","t">>,
      <<" ","l","e","v","e","l"," ">>, <<"k","m"," ","/"," ","h">> }

\* the numbers given as values
Values == {Num(i, 1) : i \in (-MaxValue)..MaxValue} \cup {Num(1, 2), NaN, NegativeZero}

\* Number.MAX_VALUE, the largest finite number: (2^53 - 1) * 2^971
MAX_VALUE == [k |-> "num", s |-> 1, m |-> <<32767, 32767, 32767, 255>>, e |-> 971]

\* Number.MIN_VALUE, the least positive number: 2^-1074
MIN_VALUE == [k |-> "num", s |-> 1, m |-> <<1>>, e |-> -1074]

\* the values given to validateRoundTrip: those of the round-trip tests and
\* of the large-value and small-value tests, the ends of the range of the
\* property test, and the ends of the finite positive numbers
RoundTripValues ==
    Values \cup
    { Num(100, 1), Num(220, 1), Num(18, 10), Num(180, 1), Num(72, 1), Num(6, 1),
      Num(60, 1), Num(10, 1), Num(36, 1), Num(2237, 100),
      Num(1, 10), Num(10001, 10), Num(1, 1000), Num(100000, 1), Num(1000000, 1),
      Num(123456789, 100), MAX_VALUE, MIN_VALUE, Infinity(1) }

\* the tolerances given to validateRoundTrip: none, 1e-5, 1e-15 and 0
Tolerances ==
    { UndefinedValue, Num(1, 100000), Over(Tolerance1em10, Num(100000, 1)), Zero }

\* the values given to the safe conversions
SafeValues == Values \cup {NullValue, UndefinedValue}

\* the unit arguments given to the conversion engine
UnitArguments == RegisteredUnits \cup ObjectPrototypeKeys \cup UnregisteredUnits \cup {<<>>}

\* the units fields given to migrateTestResult
UnitsFields ==
    {null, <<>>, <<" ">>, <<" ", "\t">>, <<"\n">>}
    \cup {<<"U+00A0">>, <<"U+000B">>, <<"U+FEFF">>, <<"U+2003", " ">>,
          <<"U+00A0", "k", "g">>, <<"l", "b", "U+000B">>,
          <<"U+212A", "g">>, <<"U+212A", "p", "h">>, <<"U+0130", "n">>}
    \cup UNION {Variants(a) : a \in AllAliases}
    \cup UNION {Variants(u) : u \in RegisteredUnits}
    \cup UnregisteredUnits
    \cup {<<"c","o","n","s","t","r","u","c","t","o","r">>, <<"t","o","S","t","r","i","n","g">>,
          <<"v","a","l","u","e","O","f">>, <<"_","_","p","r","o","t","o","_","_">>,
          <<"C","o","n","s","t","r","u","c","t","o","r">>}

\* the records given to migrateTestResult
Records ==
    [result_id : {"1"}, test_key : {"body_weight"}, value : Values, units : UnitsFields]

\* the records that make up the batches given to migrateTestResults
BatchRecords ==
    [result_id : {"1", "2"}, test_key : {"height"}, value : {Num(1, 1), Num(-2, 1)},
     units : {null, <<"L","b","s">>, <<"s","t","o","n","e">>}] \cup
    { [result_id |-> "1", test_key |-> "height", value |-> NaN,
       units |-> null],
      [result_id |-> "2", test_key |-> "height", value |-> Num(1, 1),
       units |-> <<"c","o","n","s","t","r","u","c","t","o","r">>],
      [result_id |-> "1", test_key |-> "height", value |-> Num(0, 1),
       units |-> <<"L","b","s">>] }

\* the words of which metric keys are made: every keyword and exemplar of
\* the classifier, and strings that hold none
KeyWords ==
    { <<"s","c","o","r","e">>, <<"f","m","s">>, <<"r","a","t","i","n","g">>,
      <<"c","o","u","n","t">>, <<"n","u","m","b","e","r">>,
      <<"p","e","r","c","e","n","t">>, <<"%">>, <<"r","e","p","s">>,
      <<"r","e","p","e","t","i","t","i","o","n","s">>,
      <<"w","e","i","g","h","t">>, <<"m","a","s","s">>,
      <<"h","e","i","g","h","t">>, <<"r","e","a","c","h">>,
      <<"s","p","a","n">>, <<"d","i","s","t","a","n","c","e">>,
      <<"j","u","m","p">>, <<"t","i","m","e">>,
      <<"d","u","r","a","t","i","o","n">>, <<"s","p","e","e","d">>,
      <<"v","e","l","o","c","i","t","y">>,
      <<"d","e","e","p","_","s","q","u","a","t">>,
      <<"o","v","e","r","h","e","a","d","_","s","q","u","a","t">>,
      <<"s","h","o","u","l","d","e","r","_","m","o","b","i","l","i","t","y">>,
      <<"t","r","u","n","k","_","s","t","a","b","i","l","i","t","y">>,
      <<"r","o","t","a","r","y","_","s","t","a","b","i","l","i","t","y">>,
      <<"p","u","s","h","_","u","p","s">>, <<"s","i","t","_","u","p","s">>,
      <<"a","t","t","e","m","p","t","s">>, <<"m","a","x","_","r","e","p","s">>,
      <<"t","o","t","a","l","_","r","e","p","s">>,
      <<"b","o","d","y","_","w","e","i","g","h","t">>,
      <<"m","a","x","_","w","e","i","g","h","t">>, <<"l","o","a","d">>,
      <<"a","r","m","_","s","p","a","n">>,
      <<"l","e","g","_","l","e","n","g","t","h">>,
      <<"t","o","r","s","o","_","l","e","n","g","t","h">>,
      <<"v","e","r","t","i","c","a","l","_","j","u","m","p">>,
      <<"b","r","o","a","d","_","j","u","m","p">>,
      <<"s","p","r","i","n","t","_","d","i","s","t","a","n","c","e">>,
      <<"t","h","r","o","w","_","d","i","s","t","a","n","c","e">>,
      <<"s","p","r","i","n","t","_","t","i","m","e">>,
      <<"r","e","a","c","t","i","o","n","_","t","i","m","e">>,
      <<"h","o","l","d","_","t","i","m","e">>,
      <<"m","a","x","_","s","p","e","e","d">>,
      <<"a","v","e","r","a","g","e","_","s","p","e","e","d">>,
      <<"u","n","k","n","o","w","n","_","m","e","t","r","i","c">>,
      <<"b","o","d","y","_","f","a","t","_","p","e","r","c","e","n","t">>,
      <<"H","e","i","g","h","t">>, <<"x">>, <<>> }

\* the metric keys given to getMetricType: a word, or two words joined by _
MetricKeys == KeyWords \cup {a \o <<"_">> \o b : a \in KeyWords, b \in KeyWords}

\* the unit families (the keys of UnitPreferences)
Families ==
    {"mass", "distance", "length", "time", "speed", "count", "percent", "score", "reps"}

\* the raw units (apiUnit) given to getTestDisplayUnit
ApiUnits ==
    { <<>>, <<"c","m">>, <<"i","n">>, <<"k","g">>, <<"c","o","u","n","t">>,
      <<"%">>, <<"l","e","v","e","l">>, <<"u","n","k","n","o","w","n">>,
      <<"c","o","n","s","t","r","u","c","t","o","r">> }

\* the families a unit descriptor may name
DescriptorFamilies ==
    {"length", "distance", "mass", "weight", "time", "speed", "count", "percent",
     "score", "unknown_family"}

\* the unit descriptors given to getTestDisplayUnit, and none
UnitRefs ==
    {[present |-> FALSE]} \cup
    [present : {TRUE},
     key : { undefined, <<>>, <<"c","m">>, <<"m">>, <<"l","b">>, <<"c","o","u","n","t">>,
             <<"l","e","v","e","l">>, <<"u","n","k","n","o","w","n">>,
             <<"t","o","S","t","r","i","n","g">> },
     family : DescriptorFamilies]

\* the preference sets given: the default, one that differs from it in every
\* convertible family, one that differs in length only, one that differs in
\* distance only, one without length and distance, and the empty one
PreferenceSets ==
    { DEFAULT_PREFERENCES,
      [DEFAULT_PREFERENCES EXCEPT !.mass = <<"l","b">>, !.distance = <<"f","t">>,
                                  !.length = <<"i","n">>, !.time = <<"m","i","n">>,
                                  !.speed = <<"m","p","h">>],
      [DEFAULT_PREFERENCES EXCEPT !.length = <<"i","n">>],
      [DEFAULT_PREFERENCES EXCEPT !.distance = <<"f","t">>],
      [f \in {"mass", "time", "speed"} |-> DEFAULT_PREFERENCES[f]],
      [f \in {} |-> <<>>] }

\* the metric keys given to formatBaseValue: one or two of each family, one
\* that only the exemplar lists classify, and two that nothing classifies
FormatKeys ==
    { <<"f","m","s">>, <<"c","o","u","n","t">>,
      <<"b","o","d","y","_","f","a","t","_","p","e","r","c","e","n","t">>,
      <<"m","a","x","_","r","e","p","s">>, <<"b","o","d","y","_","w","e","i","g","h","t">>,
      <<"h","e","i","g","h","t">>, <<"a","r","m","_","s","p","a","n">>,
      <<"b","r","o","a","d","_","j","u","m","p">>, <<"h","o","l","d","_","t","i","m","e">>,
      <<"m","a","x","_","s","p","e","e","d">>, <<"l","o","a","d">>,
      <<"H","e","i","g","h","t">>, <<>> }

\* the literal 1e21
Value1e21 == Times(Times(NumberOf(1000000000), NumberOf(1000000000)), NumberOf(1000))

\* the base values given to formatBaseValue: the values, null and undefined,
\* values with a fraction that is rounded, a large one, the least positive
\* number and an infinity
FormatValues ==
    SafeValues \cup
    { Num(725, 10), Num(1005, 1000), Num(-1, 1000), Num(1000000, 1), MIN_VALUE,
      Infinity(1) }

\* base values whose display value is written by Number::toString
LargeFormatValues == {Value1e21, [Value1e21 EXCEPT !.s = -1]}

\* the precisions given to formatBaseValue: none, 0, 3 and the invalid -1
FormatPrecisions == {UndefinedValue, NumberOf(0), NumberOf(3), NumberOf(-1)}

\* the preference sets given to formatBaseValue: those above, one with the
\* same registered unit for every family, one with a unit that is not
\* registered, one with a member of Object.prototype as a unit, and none
FormatPreferences ==
    {[given |-> FALSE]} \cup
    {[given |-> TRUE, value |-> p] :
        p \in PreferenceSets \cup
              { [f \in Families |-> <<"m","p","h">>],
                [DEFAULT_PREFERENCES EXCEPT !.length = <<"s","t","o","n","e">>],
                [DEFAULT_PREFERENCES EXCEPT
                    !.distance = <<"c","o","n","s","t","r","u","c","t","o","r">>] }}

\* the partial preferences given to updatePreferences: the empty one, one
\* that changes the mass unit, one that changes the time unit, one that
\* changes both, and one that gives the mass unit the default has
PartialPreferences ==
    { [f \in {} |-> <<>>],
      [mass |-> <<"l","b">>],
      [time |-> <<"m","i","n">>],
      [mass |-> <<"l","b">>, time |-> <<"m","i","n">>],
      [mass |-> <<"k","g">>] }

\* the initialPreferences given to UnitsProvider: none, and one with feet
\* for distances
InitialPreferences ==
    { [given |-> FALSE],
      [given |-> TRUE,
       value |-> [units_1_DEFAULT_PREFERENCES EXCEPT !.distance = <<"f","t">>]] }

\* the sequences over S of length at most n
SeqsUpTo(S, n) == UNION {[1..k -> S] : k \in 0..n}

\* the original records given to validateMigration
OriginalRecords ==
    { [result_id |-> "1", test_key |-> "body_weight", value |-> Num(1, 1), units |-> <<"l","b","s">>],
      [result_id |-> "2", test_key |-> "height",      value |-> Num(1, 1), units |-> null],
      [result_id |-> "1", test_key |-> "height",      value |-> Num(0, 1), units |-> null],
      [result_id |-> "2", test_key |-> "body_weight", value |-> NaN,       units |-> <<"l","b","s">>],
      [result_id |-> "1", test_key |-> "height",      value |-> NegativeZero, units |-> null] }

\* the migrated records given to validateMigration: what migrateTestResult
\* returns for the original records, and records that differ from those in
\* the identifier, the base value, the raw value or the raw unit
MigratedRecords ==
    {migrateTestResult(r) : r \in OriginalRecords} \cup
    { [result_id |-> "1", value_base |-> Num(2000, 1), value_raw |-> Num(1, 1), unit_raw |-> <<"l","b","s">>],
      [result_id |-> "1", value_base |-> Num(1, 2000), value_raw |-> Num(1, 1), unit_raw |-> <<"l","b","s">>],
      [result_id |-> "1", value_base |-> Num(-1, 1),   value_raw |-> Num(1, 1), unit_raw |-> <<"l","b","s">>],
      [result_id |-> "1", value_base |-> Num(0, 1),    value_raw |-> Num(1, 1), unit_raw |-> <<"l","b","s">>],
      [result_id |-> "1", value_base |-> Num(1, 1),    value_raw |-> Num(2, 1), unit_raw |-> <<"l","b","s">>],
      [result_id |-> "1", value_base |-> Num(1, 1),    value_raw |-> Num(2, 1), unit_raw |-> <<"l","b">>],
      [result_id |-> "2", value_base |-> Num(1, 1),    value_raw |-> Num(1, 1), unit_raw |-> <<"l","b","s">>] }

-----------------------------------------------------------------------------
(* The library as a state machine: a call is made with arguments drawn from  *)
(* the inputs above, then the called function runs to its outcome.           *)

NotRun == [done |-> FALSE]

Done(result) == [done |-> TRUE, result |-> result]

Init ==
    /\ outcome = NotRun
    /\ unitTable = TO_BASE_FACTORS
    /\ provider = NotMounted
    /\ \/ \E v \in Values, u \in UnitArguments :
            call = [fn |-> "toBase", value |-> v, unit |-> u]
       \/ \E v \in Values, u \in UnitArguments :
            call = [fn |-> "fromBase", value |-> v, unit |-> u]
       \/ \E u \in UnitArguments :
            call = [fn |-> "getBaseUnit", unit |-> u]
       \/ \E v \in Values, u1 \in UnitArguments, u2 \in UnitArguments :
            call = [fn |-> "convertUnit", value |-> v, fromUnit |-> u1, toUnit |-> u2]
       \/ \E v \in SafeValues, u \in UnitArguments :
            call = [fn |-> "safeConvertToBase", value |-> v, unit |-> u]
       \/ \E v \in SafeValues, u \in UnitArguments :
            call = [fn |-> "safeConvertFromBase", value |-> v, unit |-> u]
       \/ \E key \in MetricKeys :
            call = [fn |-> "getMetricType", metricKey |-> key]
       \/ \E key \in MetricKeys :
            call = [fn |-> "getMetricTypeDistUnits", metricKey |-> key]
       \/ \E u \in ApiUnits, ref \in UnitRefs, prefs \in PreferenceSets :
            call = [fn |-> "getTestDisplayUnit", apiUnit |-> u, baseUnitRef |-> ref,
                    preferences |-> prefs]
       \/ \E f \in Families, prefs \in PreferenceSets :
            call = [fn |-> "getDisplayUnit", metricType |-> f, preferences |-> prefs]
       \/ \E v \in RoundTripValues, u \in UnitArguments, tol \in Tolerances :
            call = [fn |-> "validateRoundTrip", value |-> v, unit |-> u, tolerance |-> tol]
       \/ \E v \in FormatValues, key \in FormatKeys, prefs \in FormatPreferences,
             p \in FormatPrecisions :
            call = [fn |-> "formatBaseValue", baseValue |-> v, metricKey |-> key,
                    preferences |-> prefs, precision |-> p]
       \/ \E v \in LargeFormatValues, key \in FormatKeys, p \in FormatPrecisions :
            call = [fn |-> "formatBaseValue", baseValue |-> v, metricKey |-> key,
                    preferences |-> [given |-> FALSE], precision |-> p]
       \/ \E prefs \in InitialPreferences, callback \in BOOLEAN :
            call = [fn |-> "UnitsProvider", initialPreferences |-> prefs,
                    onPreferencesChange |-> callback]
       \/ \E r \in Records :
            call = [fn |-> "migrateTestResult", result |-> r]
       \/ \E rs \in SeqsUpTo(BatchRecords, MaxBatch) :
            call = [fn |-> "migrateTestResults", results |-> rs]
       \/ \E o \in SeqsUpTo(OriginalRecords, MaxBatch), m \in SeqsUpTo(MigratedRecords, MaxBatch) :
            call = [fn |-> "validateMigration", original |-> o, migrated |-> m]

Pending(fn) == call.fn = fn /\ ~outcome.done

\* toBase forgetting the unit it was given
CallToBase_unregisters ==
    /\ Pending("toBase")
    /\ outcome' = Done(toBase(call.value, call.unit))
    /\ unitTable' = [u \in DOMAIN unitTable \ {call.unit} |-> unitTable[u]]
    /\ UNCHANGED <<call, provider>>

CallToBase ==
    /\ Pending("toBase")
    /\ outcome' = Done(toBase(call.value, call.unit))
    /\ UNCHANGED <<call, unitTable, provider>>

CallFromBase ==
    /\ Pending("fromBase")
    /\ outcome' = Done(fromBase(call.value, call.unit))
    /\ UNCHANGED <<call, unitTable, provider>>

CallGetBaseUnit ==
    /\ Pending("getBaseUnit")
    /\ outcome' = Done(getBaseUnit(call.unit))
    /\ UNCHANGED <<call, unitTable, provider>>

CallConvertUnit ==
    /\ Pending("convertUnit")
    /\ outcome' = Done(convertUnit(call.value, call.fromUnit, call.toUnit))
    /\ UNCHANGED <<call, unitTable, provider>>

CallSafeConvertToBase ==
    /\ Pending("safeConvertToBase")
    /\ outcome' = Done(safeConvertToBase(call.value, call.unit))
    /\ UNCHANGED <<call, unitTable, provider>>

CallSafeConvertFromBase ==
    /\ Pending("safeConvertFromBase")
    /\ outcome' = Done(safeConvertFromBase(call.value, call.unit))
    /\ UNCHANGED <<call, unitTable, provider>>

CallGetMetricType ==
    /\ Pending("getMetricType")
    /\ outcome' = Done(getMetricType(call.metricKey))
    /\ UNCHANGED <<call, unitTable, provider>>

CallGetMetricTypeDistUnits ==
    /\ Pending("getMetricTypeDistUnits")
    /\ outcome' = Done(getMetricTypeDistUnits(call.metricKey))
    /\ UNCHANGED <<call, unitTable, provider>>

CallGetTestDisplayUnit ==
    /\ Pending("getTestDisplayUnit")
    /\ outcome' = Done(getTestDisplayUnit(call.apiUnit, call.baseUnitRef, call.preferences))
    /\ UNCHANGED <<call, unitTable, provider>>

CallGetDisplayUnit ==
    /\ Pending("getDisplayUnit")
    /\ outcome' = Done(getDisplayUnit(call.metricType, call.preferences))
    /\ UNCHANGED <<call, unitTable, provider>>

CallValidateRoundTrip ==
    /\ Pending("validateRoundTrip")
    /\ outcome' = Done(validateRoundTrip(call.value, call.unit, call.tolerance))
    /\ UNCHANGED <<call, unitTable, provider>>

CallFormatBaseValue ==
    /\ Pending("formatBaseValue")
    /\ outcome' = Done(formatBaseValue(call.baseValue, call.metricKey, call.preferences,
                                       call.precision))
    /\ UNCHANGED <<call, unitTable, provider>>

\* the provider is mounted: its first render
MountUnitsProvider ==
    /\ Pending("UnitsProvider")
    /\ provider' = Mounted(InitialPreferencesOr(call.initialPreferences))
    /\ outcome' = Done(ContextValue(provider'))
    /\ UNCHANGED <<call, unitTable>>

\* a consumer calls the updatePreferences of the context value where React
\* defers the render: the call runs to its end
CallUpdatePreferences ==
    /\ provider.mounted
    /\ provider.position = "idle"
    /\ Len(provider.updates) < MaxUpdates
    /\ \E newPrefs \in PartialPreferences :
          provider' = updatePreferences(provider, newPrefs, call.onPreferencesChange)
    /\ UNCHANGED <<call, outcome, unitTable>>

\* React renders the provider after the handler that queued updates has
\* returned
RenderUnitsProvider ==
    /\ provider.mounted
    /\ provider.position = "idle"
    /\ provider.queuedIncrements > 0 \/ provider.queuedPreferences # <<>>
    /\ provider' = Rendered(provider)
    /\ outcome' = Done(ContextValue(provider'))
    /\ UNCHANGED <<call, unitTable>>

\* a consumer calls the updatePreferences of the context value where React
\* renders inside a setter call (nothing is queued there: updates queued
\* by a handler are rendered when it returns): the call runs until
\* setPreferences has rendered the provider
EnterUpdatePreferences ==
    /\ provider.mounted
    /\ provider.position = "idle"
    /\ provider.queuedIncrements = 0 /\ provider.queuedPreferences = <<>>
    /\ Len(provider.updates) < MaxUpdates
    /\ \E newPrefs \in PartialPreferences :
          provider' = updatePreferencesToSetUnitsVersion(provider, newPrefs)
    /\ outcome' = Done(ContextValue(provider'))
    /\ UNCHANGED <<call, unitTable>>

\* that call goes on: setUnitsVersion renders the provider, then the
\* callback is called
LeaveUpdatePreferences ==
    /\ provider.mounted
    /\ provider.position = "setUnitsVersion"
    /\ provider' = updatePreferencesFromSetUnitsVersion(provider, call.onPreferencesChange)
    /\ outcome' = Done(ContextValue(provider'))
    /\ UNCHANGED <<call, unitTable>>

CallMigrateTestResult ==
    /\ Pending("migrateTestResult")
    /\ outcome' = Done(migrateTestResultRun(call.result))
    /\ UNCHANGED <<call, unitTable, provider>>

CallMigrateTestResults ==
    /\ Pending("migrateTestResults")
    /\ outcome' = Done(migrateTestResults(call.results))
    /\ UNCHANGED <<call, unitTable, provider>>

CallValidateMigration ==
    /\ Pending("validateMigration")
    /\ outcome' = Done(validateMigration(call.original, call.migrated))
    /\ UNCHANGED <<call, unitTable, provider>>

Next ==
    \/ CallToBase
    \/ CallFromBase
    \/ CallGetBaseUnit
    \/ CallConvertUnit
    \/ CallSafeConvertToBase
    \/ CallSafeConvertFromBase
    \/ CallGetMetricType
    \/ CallGetMetricTypeDistUnits
    \/ CallGetTestDisplayUnit
    \/ CallGetDisplayUnit
    \/ CallValidateRoundTrip
    \/ CallFormatBaseValue
    \/ MountUnitsProvider
    \/ CallUpdatePreferences
    \/ RenderUnitsProvider
    \/ EnterUpdatePreferences
    \/ LeaveUpdatePreferences
    \/ CallMigrateTestResult
    \/ CallMigrateTestResults
    \/ CallValidateMigration

Spec == Init /\ [][Next]_vars

\* the call made was fn and it has run to its outcome
Ran(fn) == call.fn = fn /\ outcome.done

-----------------------------------------------------------------------------
(* Properties *)

\* the units field holds no unit: null, empty or white space only
Blank(units) == units = null \/ \A i \in 1..Len(units) : units[i] \in WhiteSpace

\* the (1-based) entries of the alias table that the units field selects
\* once lower-cased and trimmed
AliasOf(units) ==
    {i \in 1..Len(AliasTable) : trim(toLowerCase(units)) \in AliasTable[i].aliases}

\* C1: migrateTestResult returns value_raw equal to the value given, unit_raw
\* equal to the units given, character for character, and result_id equal to
\* the result_id given, on every path.
C1_AuditFieldsPreserved ==
    Ran("migrateTestResult") =>
        /\ outcome.result.value.value_raw = call.result.value
        /\ outcome.result.value.unit_raw = call.result.units
        /\ outcome.result.value.result_id = call.result.result_id

\* C1 witness: a record whose units normalize to a different string has been
\* migrated and converted.
C1_Witness ==
    /\ Ran("migrateTestResult")
    /\ call.result.units = <<"\t","P","O","U","N","D","S","\n">>
    /\ outcome.result.calls = <<"normalizeUnitString", "toBase">>
    /\ outcome.result.value.value_base # call.result.value

\* C2: for a record whose units are not blank and do not normalize to a
\* registered unit, migrateTestResult returns value_base equal to the value
\* given.
C2_UnregisteredUnitIsIdentity ==
    (/\ Ran("migrateTestResult")
     /\ ~Blank(call.result.units)
     /\ normalizeUnitString(call.result.units) \notin RegisteredUnits)
    => outcome.result.value.value_base = call.result.value

\* C3: for a record whose units are null, empty or white space only,
\* migrateTestResult returns value_base equal to the value given and calls
\* neither the normalizer nor toBase.
C3_BlankUnitsPassThrough ==
    (Ran("migrateTestResult") /\ Blank(call.result.units)) =>
        /\ outcome.result.value.value_base = call.result.value
        /\ outcome.result.calls = <<>>
        /\ ~outcome.result.warned

\* C3 witness: a record with units of white space only has been migrated.
C3_Witness ==
    /\ Ran("migrateTestResult")
    /\ call.result.units = <<" ", "\t">>
    /\ call.result.value = Num(2, 1)

\* C4: for a record whose units, lower-cased and trimmed, are an alias of the
\* canonical unit U, migrateTestResult returns value_base = value * factor(U).
C4_AliasConverted ==
    Ran("migrateTestResult") =>
        \A i \in AliasOf(call.result.units) :
            outcome.result.value.value_base =
                Times(call.result.value, unitTable[AliasTable[i].unit].factor)

\* C4 witness: a record whose units are an alias in capitals and surrounded
\* by white space has been migrated to a different value.
C4_Witness ==
    /\ Ran("migrateTestResult")
    /\ call.result.units = <<"\t","K","P","H","\n">>
    /\ call.result.value = Num(2, 1)
    /\ outcome.result.value.value_base = Num(5, 9)

\* C5: migrateTestResults returns a sequence as long as its input whose
\* element at each index is migrateTestResult of the input at that index.
C5_BatchElementwise ==
    Ran("migrateTestResults") =>
        /\ Len(outcome.result) = Len(call.results)
        /\ \A i \in 1..Len(call.results) :
              outcome.result[i] = migrateTestResult(call.results[i])

\* C5 witness: a batch of two records that migrate to different results has
\* been migrated.
C5_Witness ==
    /\ Ran("migrateTestResults")
    /\ Len(call.results) = 2
    /\ migrateTestResult(call.results[1]) # migrateTestResult(call.results[2])

\* C6: given sequences of different lengths, validateMigration reports
\* success = false, the length mismatch as its only error, no warning, and
\* stats {total: len(original), converted: 0, unchanged: 0, failed: len(original)}.
C6_LengthMismatchReport ==
    (Ran("validateMigration") /\ Len(call.original) # Len(call.migrated)) =>
        /\ outcome.result.success = FALSE
        /\ Len(outcome.result.errors) = 1
        /\ outcome.result.errors[1].kind = "Length mismatch"
        /\ outcome.result.warnings = <<>>
        /\ outcome.result.stats = [total |-> Len(call.original), converted |-> 0,
                                   unchanged |-> 0, failed |-> Len(call.original)]

\* C6 witness: two original records have been validated against one
\* migrated record whose identifier differs from the first original's.
C6_Witness ==
    /\ Ran("validateMigration")
    /\ Len(call.original) = 2
    /\ Len(call.migrated) = 1
    /\ call.original[1].result_id # call.migrated[1].result_id

\* C7: in every report of validateMigration success is true exactly when
\* there are no errors, whatever the warnings.
C7_SuccessIffNoErrors ==
    Ran("validateMigration") =>
        (outcome.result.success <=> Len(outcome.result.errors) = 0)

\* C7 witness: a report with success = true and a warning.
C7_Witness ==
    /\ Ran("validateMigration")
    /\ outcome.result.success
    /\ Len(outcome.result.warnings) > 0

\* C8: toBase, fromBase and getBaseUnit fail with UnknownUnit for every unit
\* string that is not registered; for a registered unit they return
\* value * factor, baseValue / factor and the base.
C8_UnregisteredUnitThrows ==
    /\ Ran("toBase") =>
          IF call.unit \in RegisteredUnits
          THEN outcome.result = Return(Times(call.value, unitTable[call.unit].factor))
          ELSE IsUnknownUnit(outcome.result)
    /\ Ran("fromBase") =>
          IF call.unit \in RegisteredUnits
          THEN outcome.result = Return(Over(call.value, unitTable[call.unit].factor))
          ELSE IsUnknownUnit(outcome.result)
    /\ Ran("getBaseUnit") =>
          IF call.unit \in RegisteredUnits
          THEN ~outcome.result.threw /\ outcome.result.value = unitTable[call.unit].base
          ELSE IsUnknownUnit(outcome.result)

\* C9: for two registered units, convertUnit fails with IncompatibleUnits
\* when their bases differ, before calling toBase or fromBase; when the bases
\* are equal it returns fromBase(toBase(value, fromUnit), toUnit).
C9_IncompatibleUnitsRejected ==
    (/\ Ran("convertUnit")
     /\ call.fromUnit \in RegisteredUnits
     /\ call.toUnit \in RegisteredUnits)
    => IF unitTable[call.fromUnit].base # unitTable[call.toUnit].base
       THEN IsIncompatibleUnits(outcome.result) /\ outcome.result.calls = <<>>
       ELSE /\ ~outcome.result.threw
            /\ outcome.result.value =
                 fromBase(toBase(call.value, call.fromUnit).value, call.toUnit).value

\* C9 witness: a conversion from kg to m has been attempted.
C9_Witness ==
    /\ Ran("convertUnit")
    /\ call.fromUnit = <<"k","g">>
    /\ call.toUnit = <<"m">>
    /\ call.value = Num(2, 1)

\* C10: convertUnit fails with UnknownUnit whenever fromUnit or toUnit is not
\* registered.
C10_UnregisteredConvertThrows ==
    (/\ Ran("convertUnit")
     /\ (call.fromUnit \notin RegisteredUnits \/ call.toUnit \notin RegisteredUnits))
    => IsUnknownUnit(outcome.result)

\* the value is null, undefined or NaN
Missing(v) == v.k \in {"null", "undefined", "NaN"}

\* C11: safeConvertToBase and safeConvertFromBase never raise; they return
\* null when the value is null, undefined or NaN, return null when the unit
\* is not registered, and otherwise return what toBase / fromBase return.
C11_SafeConversionNull ==
    /\ Ran("safeConvertToBase") =>
          /\ ~outcome.result.threw
          /\ IF Missing(call.value) \/ call.unit \notin RegisteredUnits
             THEN outcome.result.value = NullValue
             ELSE outcome.result.value = toBase(call.value, call.unit).value
    /\ Ran("safeConvertFromBase") =>
          /\ ~outcome.result.threw
          /\ IF Missing(call.value) \/ call.unit \notin RegisteredUnits
             THEN outcome.result.value = NullValue
             ELSE outcome.result.value = fromBase(call.value, call.unit).value

\* the rules of the classifier in the order the specification gives them:
\* the exact-family keywords, the domain keywords, the exemplar lists
ClassifierRules ==
    << [family |-> "score", words |-> { <<"s","c","o","r","e">>, <<"f","m","s">>, <<"r","a","t","i","n","g">> }],
       [family |-> "count", words |-> { <<"c","o","u","n","t">>, <<"n","u","m","b","e","r">> }],
       [family |-> "percent", words |-> { <<"p","e","r","c","e","n","t">>, <<"%">> }],
       [family |-> "reps", words |-> { <<"r","e","p","s">>, <<"r","e","p","e","t","i","t","i","o","n","s">> }],
       [family |-> "mass", words |-> { <<"w","e","i","g","h","t">>, <<"m","a","s","s">> }],
       [family |-> "length", words |-> { <<"h","e","i","g","h","t">>, <<"r","e","a","c","h">>, <<"s","p","a","n">> }],
       [family |-> "distance", words |-> { <<"d","i","s","t","a","n","c","e">>, <<"j","u","m","p">> }],
       [family |-> "time", words |-> { <<"t","i","m","e">>, <<"d","u","r","a","t","i","o","n">> }],
       [family |-> "speed", words |-> { <<"s","p","e","e","d">>, <<"v","e","l","o","c","i","t","y">> }],
       [family |-> "score", words |-> scoreMetrics],
       [family |-> "count", words |-> countMetrics],
       [family |-> "reps", words |-> repsMetrics],
       [family |-> "mass", words |-> massMetrics],
       [family |-> "length", words |-> lengthMetrics],
       [family |-> "distance", words |-> distanceMetrics],
       [family |-> "time", words |-> timeMetrics],
       [family |-> "speed", words |-> speedMetrics] >>

\* the rules that match a metric key
MatchingRules(key) ==
    {i \in 1..Len(ClassifierRules) : \E w \in ClassifierRules[i].words : includes(key, w)}

\* C12: getMetricType returns one of the nine families for every key: the
\* family of the first rule, in the order of the specification, one of whose
\* words the key contains, and distance when no rule matches.
C12_FirstMatchingRule ==
    Ran("getMetricType") =>
        /\ outcome.result \in Families
        /\ outcome.result =
             IF MatchingRules(call.metricKey) = {} THEN "distance"
             ELSE ClassifierRules[CHOOSE i \in MatchingRules(call.metricKey) :
                                     \A j \in MatchingRules(call.metricKey) : i <= j].family

\* C12 witness: a key that contains both count and jump has been classified
\* as count.
C12_Witness ==
    /\ Ran("getMetricType")
    /\ call.metricKey = <<"j","u","m","p","_","c","o","u","n","t">>
    /\ outcome.result = "count"

\* C13: in every build of the classifier, a key that contains height, reach
\* or span and none of the exact-family keywords nor weight or mass is
\* classified as length, also when it contains distance or jump.
C13_LengthWinsOverDistance ==
    (/\ Ran("getMetricType") \/ Ran("getMetricTypeDistUnits")
     /\ HasAny(call.metricKey, { <<"h","e","i","g","h","t">>, <<"r","e","a","c","h">>, <<"s","p","a","n">> })
     /\ ~HasAny(call.metricKey, { <<"s","c","o","r","e">>, <<"f","m","s">>, <<"r","a","t","i","n","g">>, <<"c","o","u","n","t">>, <<"n","u","m","b","e","r">>, <<"p","e","r","c","e","n","t">>, <<"%">>, <<"r","e","p","s">>, <<"r","e","p","e","t","i","t","i","o","n","s">>, <<"w","e","i","g","h","t">>, <<"m","a","s","s">> }))
    => outcome.result = "length"


\* the effective unit key of a call of getTestDisplayUnit: the descriptor's
\* key when a descriptor is given and its key is a non-empty string, the raw
\* unit otherwise
EffectiveKey ==
    IF call.baseUnitRef.present /\ call.baseUnitRef.key \notin {undefined, null, <<>>}
    THEN call.baseUnitRef.key
    ELSE call.apiUnit

NonConvertibleUnits ==
    { <<"c","o","u","n","t">>, <<"p","e","r","c","e","n","t">>, <<"s","c","o","r","e">>,
      <<"r","e","p","s">>, <<"%">>, <<"l","e","v","e","l">> }

\* the preference a family dispatches to (weight reads the mass preference)
PreferenceOfFamily ==
    [length |-> "length", distance |-> "distance", mass |-> "mass", weight |-> "mass",
     time |-> "time", speed |-> "speed"]

\* the result C14 states: the preference of the descriptor's family, which
\* reads no other entry of the preference set
FamilyDispatch ==
    call.baseUnitRef.family \in DOMAIN PreferenceOfFamily =>
        outcome.result =
            IF PreferenceOfFamily[call.baseUnitRef.family] \in DOMAIN call.preferences
            THEN call.preferences[PreferenceOfFamily[call.baseUnitRef.family]]
            ELSE undefined

\* C14 as stated: for a unit descriptor whose key is not a non-convertible
\* unit, getTestDisplayUnit returns the preference of the descriptor's family
\* (length, distance, mass for mass and weight, time, speed), whatever the raw
\* unit and the descriptor key are
C14_FamilyDispatchByDescriptorKey ==
    (/\ Ran("getTestDisplayUnit")
     /\ call.baseUnitRef.present
     /\ call.baseUnitRef.key \notin NonConvertibleUnits)
    => FamilyDispatch

\* C14 amended: for a unit descriptor and an effective unit key (the
\* descriptor key when non-empty, the raw unit otherwise) that is not a
\* non-convertible unit, getTestDisplayUnit returns the preference of the
\* descriptor's family; length reads only preferences.length and distance
\* only preferences.distance
C14_FamilyDispatch ==
    (/\ Ran("getTestDisplayUnit")
     /\ call.baseUnitRef.present
     /\ EffectiveKey \notin NonConvertibleUnits)
    => FamilyDispatch

\* a length descriptor with a key, under a preference set whose length and
\* distance entries differ, resolved to the length preference
C14_Witness ==
    /\ Ran("getTestDisplayUnit")
    /\ call.baseUnitRef.present
    /\ call.baseUnitRef.family = "length"
    /\ call.baseUnitRef.key = <<"c","m">>
    /\ call.apiUnit = <<"k","g">>
    /\ call.preferences = [DEFAULT_PREFERENCES EXCEPT !.length = <<"i","n">>]
    /\ outcome.result = <<"i","n">>

\* C15: when the effective unit key is a non-convertible unit (count,
\* percent, score, reps, %, level), getTestDisplayUnit returns that key,
\* whatever the descriptor's family and the preferences are
C15_NonConvertibleVerbatim ==
    (Ran("getTestDisplayUnit") /\ EffectiveKey \in NonConvertibleUnits)
    => outcome.result = EffectiveKey

\* a length descriptor with key level returned level, not the length preference
C15_Witness ==
    /\ Ran("getTestDisplayUnit")
    /\ call.baseUnitRef.present
    /\ call.baseUnitRef.family = "length"
    /\ call.baseUnitRef.key = <<"l","e","v","e","l">>
    /\ call.preferences = DEFAULT_PREFERENCES
    /\ outcome.result = <<"l","e","v","e","l">>

\* C16: with no descriptor, or a descriptor of a family other than length,
\* distance, mass, weight, time and speed, getTestDisplayUnit returns the
\* effective unit key when the family is count or percent and the key is
\* non-empty, else the key when it is a registered unit, else 'm'
C16_FallbackChain ==
    (/\ Ran("getTestDisplayUnit")
     /\ \/ ~call.baseUnitRef.present
        \/ call.baseUnitRef.family \notin DOMAIN PreferenceOfFamily)
    => outcome.result =
          IF /\ call.baseUnitRef.present
             /\ call.baseUnitRef.family \in {"count", "percent"}
             /\ EffectiveKey # <<>>
          THEN EffectiveKey
          ELSE IF EffectiveKey \in RegisteredUnits THEN EffectiveKey
          ELSE <<"m">>

\* C17 as stated: when the descriptor's family is length, distance, mass,
\* weight, time or speed and the preference set has no entry for it,
\* getTestDisplayUnit returns undefined, and getDisplayUnit returns undefined
\* for a family without an entry
C17_MissingPreferenceUndefined ==
    /\ (/\ Ran("getTestDisplayUnit")
        /\ call.baseUnitRef.present
        /\ call.baseUnitRef.family \in DOMAIN PreferenceOfFamily
        /\ PreferenceOfFamily[call.baseUnitRef.family] \notin DOMAIN call.preferences)
       => outcome.result = undefined
    /\ (Ran("getDisplayUnit") /\ call.metricType \notin DOMAIN call.preferences)
       => outcome.result = undefined

\* C17 amended: the same, for an effective unit key that is not a
\* non-convertible unit
C17_MissingPreferenceUndefinedConvertible ==
    /\ (/\ Ran("getTestDisplayUnit")
        /\ call.baseUnitRef.present
        /\ call.baseUnitRef.family \in DOMAIN PreferenceOfFamily
        /\ PreferenceOfFamily[call.baseUnitRef.family] \notin DOMAIN call.preferences
        /\ EffectiveKey \notin NonConvertibleUnits)
       => outcome.result = undefined
    /\ (Ran("getDisplayUnit") /\ call.metricType \notin DOMAIN call.preferences)
       => outcome.result = undefined

\* a length descriptor with key cm resolved to undefined under the empty
\* preference set
C17_Witness ==
    /\ Ran("getTestDisplayUnit")
    /\ call.baseUnitRef.present
    /\ call.baseUnitRef.family = "length"
    /\ call.baseUnitRef.key = <<"c","m">>
    /\ DOMAIN call.preferences = {}
    /\ outcome.result = undefined


\* the units of the Unit Table that convert: mass, length, time and speed
ConvertibleUnits ==
    { <<"k","g">>, <<"l","b">>, <<"m">>, <<"c","m">>, <<"i","n">>, <<"f","t">>,
      <<"s">>, <<"m","i","n">>, <<"m","/","s">>, <<"k","m","/","h">>, <<"m","p","h">> }

FinitePositive(v) == v.k = "num" /\ v.m # <<>> /\ v.s = 1

\* |v - fromBase(toBase(v, U), U)| of the call
RoundTripError ==
    MathAbs(Minus(call.value,
                  Over(Times(call.value, unitTable[call.unit].factor),
                       unitTable[call.unit].factor)))

\* C18 as stated: for every registered convertible unit and every finite
\* positive value, validateRoundTrip with the default tolerance is true (the
\* round trip is within 1e-10), and with a tolerance it is true exactly when
\* the round-trip error is less than the tolerance
C18_RoundTrip ==
    (/\ Ran("validateRoundTrip")
     /\ call.unit \in ConvertibleUnits
     /\ FinitePositive(call.value))
    => /\ ~outcome.result.threw
       /\ call.tolerance = UndefinedValue => outcome.result.value = TRUE
       /\ call.tolerance # UndefinedValue =>
             outcome.result.value = Less(RoundTripError, call.tolerance)

\* C18 amended: the round trip is within 1e-10 for every finite positive
\* value of at most 100000; for every finite positive value,
\* validateRoundTrip with a tolerance is true exactly when the round-trip
\* error is less than the tolerance (1e-10 when none is given)
C18_RoundTripUpTo100000 ==
    (/\ Ran("validateRoundTrip")
     /\ call.unit \in ConvertibleUnits
     /\ FinitePositive(call.value))
    => /\ ~outcome.result.threw
       /\ (call.tolerance = UndefinedValue /\ ~Less(Num(100000, 1), call.value))
             => outcome.result.value = TRUE
       /\ outcome.result.value =
             Less(RoundTripError,
                  IF call.tolerance = UndefinedValue THEN Tolerance1em10
                  ELSE call.tolerance)

\* 22.37 mph went to m/s and back with a rounding error, within 1e-10
C18_Witness ==
    /\ Ran("validateRoundTrip")
    /\ call.unit = <<"m","p","h">>
    /\ call.value = Num(2237, 100)
    /\ call.tolerance = UndefinedValue
    /\ RoundTripError # Zero
    /\ outcome.result.value = TRUE


\* an entry of the Unit Table with factor n/d
Entry(n, d, base) == [factor |-> Num(n, d), base |-> base]

\* the Unit Table as C19 lists it
ListedTable ==
    (<<"k","g">> :> Entry(1, 1, <<"k","g">>)) @@
    (<<"l","b">> :> Entry(45359237, 100000000, <<"k","g">>)) @@
    (<<"m">> :> Entry(1, 1, <<"m">>)) @@
    (<<"c","m">> :> Entry(1, 100, <<"m">>)) @@
    (<<"i","n">> :> Entry(254, 10000, <<"m">>)) @@
    (<<"f","t">> :> Entry(3048, 10000, <<"m">>)) @@
    (<<"s">> :> Entry(1, 1, <<"s">>)) @@
    (<<"m","i","n">> :> Entry(60, 1, <<"s">>)) @@
    (<<"m","/","s">> :> Entry(1, 1, <<"m","/","s">>)) @@
    (<<"k","m","/","h">> :> [factor |-> Over(Num(1, 1), Num(36, 10)), base |-> <<"m","/","s">>]) @@
    (<<"m","p","h">> :> Entry(44704, 100000, <<"m","/","s">>)) @@
    (<<"c","o","u","n","t">> :> Entry(1, 1, <<"c","o","u","n","t">>)) @@
    (<<"p","e","r","c","e","n","t">> :> Entry(1, 1, <<"p","e","r","c","e","n","t">>)) @@
    (<<"s","c","o","r","e">> :> Entry(1, 1, <<"s","c","o","r","e">>)) @@
    (<<"r","e","p","s">> :> Entry(1, 1, <<"r","e","p","s">>)) @@
    (<<"%">> :> Entry(1, 1, <<"%">>))

\* the listed table with the identity entry level
ListedTableAndLevel ==
    ListedTable @@ (<<"l","e","v","e","l">> :> Entry(1, 1, <<"l","e","v","e","l">>))

\* C19 as stated: in every state, before and after every operation, the Unit
\* Table is exactly the eleven convertible units with their factors and
\* bases and the identity entries count, percent, score, reps and %
C19_TableAsListed == unitTable = ListedTable

\* C19 amended: in every state, before and after every operation, the Unit
\* Table is exactly the listed entries and the identity entry level
C19_TableFixed == unitTable = ListedTableAndLevel

\* toBase converted a value given in level, which the table registers, and
\* left the table as it was
C19_Witness ==
    /\ Ran("toBase")
    /\ call.unit = <<"l","e","v","e","l">>
    /\ call.value = Num(2, 1)
    /\ outcome.result = Return(Num(2, 1))
    /\ <<"l","e","v","e","l">> \in DOMAIN unitTable
    /\ DOMAIN unitTable \ DOMAIN ListedTable = {<<"l","e","v","e","l">>}

\* the base units of the Unit Table
BaseUnits == {unitTable[u].base : u \in DOMAIN unitTable}

\* C20: for every registered unit U, getBaseUnit(U) is registered, has
\* factor 1 and is its own base, so getBaseUnit is idempotent and toBase and
\* fromBase return the value they are given for a base unit; every
\* registered factor is greater than zero
C20_BaseUnitsAreIdentity ==
    /\ \A u \in DOMAIN unitTable : Less(Zero, unitTable[u].factor)
    /\ (Ran("getBaseUnit") /\ call.unit \in DOMAIN unitTable) =>
          /\ ~outcome.result.threw
          /\ outcome.result.value \in DOMAIN unitTable
          /\ unitTable[outcome.result.value].factor = Num(1, 1)
          /\ unitTable[outcome.result.value].base = outcome.result.value
          /\ getBaseUnit(outcome.result.value) = outcome.result
    /\ ((Ran("toBase") \/ Ran("fromBase")) /\ call.unit \in BaseUnits) =>
          outcome.result = Return(call.value)

\* getBaseUnit of lb gave kg, a unit with factor 1 that is its own base
C20_Witness ==
    /\ Ran("getBaseUnit")
    /\ call.unit = <<"l","b">>
    /\ outcome.result.value = <<"k","g">>
    /\ unitTable[<<"k","g">>].factor = Num(1, 1)
    /\ unitTable[<<"k","g">>].base = <<"k","g">>

\* the base value is null, undefined or NaN
Absent(v) == v = NullValue \/ v = UndefinedValue \/ v = NaN

\* the unit of the family of the key in the preferences of the call
ResolvedUnit == Property(PreferencesOr(call.preferences), getMetricType(call.metricKey))

\* formatBaseValue called with the base value 1 in place of the one given
WithValueOne ==
    formatBaseValue(NumberOf(1), call.metricKey, call.preferences, call.precision)

\* C21: formatBaseValue with a null, undefined or NaN base value never
\* fails, whatever the metric key and the preference set: it returns
\* displayValue = null, formattedValue = the placeholder (an em dash) and
\* unit = preferences[getMetricType(key)], which is the unit it reports for
\* a non-null value with the same key and preferences
C21_AbsentValuePlaceholder ==
    (Ran("formatBaseValue") /\ Absent(call.baseValue)) =>
        /\ ~outcome.result.threw
        /\ outcome.result.value.displayValue = NullValue
        /\ outcome.result.value.formattedValue = <<EmDash>>
        /\ outcome.result.value.unit = ResolvedUnit
        /\ ~WithValueOne.threw => WithValueOne.value.unit = outcome.result.value.unit

\* a NaN base value was formatted with preferences that give inches for the
\* length family, and the placeholder was returned with that unit
C21_Witness ==
    /\ Ran("formatBaseValue")
    /\ call.baseValue = NaN
    /\ call.metricKey = <<"h","e","i","g","h","t">>
    /\ call.precision = NumberOf(-1)
    /\ ~outcome.result.threw
    /\ outcome.result.value.formattedValue = <<EmDash>>
    /\ outcome.result.value.unit = <<"i","n">>

\* the (1-based) positions at which the identifiers of the original and of the
\* migrated record differ
IdMismatched ==
    {i \in 1..Len(call.original) : call.original[i].result_id # call.migrated[i].result_id}

\* the errors reported for the pair at position i
ErrorsAt(i) ==
    {j \in 1..Len(outcome.result.errors) : outcome.result.errors[j].index = i - 1}

\* the warnings reported for the pair at position i
WarningsAt(i) ==
    {j \in 1..Len(outcome.result.warnings) : outcome.result.warnings[j].index = i - 1}

\* the errors reported for pairs whose identifiers are equal
MatchedErrors == UNION {ErrorsAt(i) : i \in (1..Len(call.original)) \ IdMismatched}

\* C22: in validateMigration with sequences of equal length, a pair whose
\* result_ids differ produces exactly one error (the ID mismatch), adds one
\* to failed and is checked no further: it is counted neither in converted
\* nor in unchanged and yields no warning and no audit-trail error; hence
\* converted + unchanged = total - (number of ID-mismatched positions).
C22_IdMismatchSkipsPair ==
    (Ran("validateMigration") /\ Len(call.original) = Len(call.migrated)) =>
        /\ \A i \in IdMismatched :
              /\ Cardinality(ErrorsAt(i)) = 1
              /\ \A j \in ErrorsAt(i) : outcome.result.errors[j].kind = "ID mismatch"
              /\ WarningsAt(i) = {}
        /\ outcome.result.stats.failed = Cardinality(IdMismatched) + Cardinality(MatchedErrors)
        /\ outcome.result.stats.converted + outcome.result.stats.unchanged
              = outcome.result.stats.total - Cardinality(IdMismatched)

\* a pair with different identifiers, whose base value is 2000 times the
\* original value and whose raw unit differs from the original's, was
\* validated after a pair with equal identifiers
C22_Witness ==
    /\ Ran("validateMigration")
    /\ Len(call.original) = 2
    /\ Len(call.migrated) = 2
    /\ IdMismatched = {2}
    /\ call.original[2].value = Num(1, 1)
    /\ call.migrated[2].value_base = Num(2000, 1)
    /\ call.migrated[2].unit_raw # call.original[2].units
    /\ outcome.result.stats.failed = 1

\* mig.value_raw !== orig.value for the pair at position i
ValueRawDiffers(i) == ~StrictEquals(call.migrated[i].value_raw, call.original[i].value)

\* mig.unit_raw !== orig.units for the pair at position i
UnitRawDiffers(i) == call.migrated[i].unit_raw # call.original[i].units

\* the kinds of the errors reported for the pair at position i
ErrorKindsAt(i) == {outcome.result.errors[j].kind : j \in ErrorsAt(i)}

\* C23: in validateMigration with sequences of equal length, for each pair
\* with equal identifiers a value_raw mismatch and a unit_raw mismatch are
\* checked independently, and each adds one error and one to failed (a
\* single record can add 2); so stats.failed equals the number of errors,
\* and these pairs are still counted in converted or unchanged.
C23_AuditMismatchesCounted ==
    (Ran("validateMigration") /\ Len(call.original) = Len(call.migrated)) =>
        /\ \A i \in (1..Len(call.original)) \ IdMismatched :
              /\ ("Audit trail mismatch: value_raw" \in ErrorKindsAt(i)) <=> ValueRawDiffers(i)
              /\ ("Audit trail mismatch: unit_raw" \in ErrorKindsAt(i)) <=> UnitRawDiffers(i)
              /\ Cardinality(ErrorsAt(i)) = (IF ValueRawDiffers(i) THEN 1 ELSE 0)
                                            + (IF UnitRawDiffers(i) THEN 1 ELSE 0)
        /\ outcome.result.stats.failed = Len(outcome.result.errors)
        /\ outcome.result.stats.converted + outcome.result.stats.unchanged
              = Cardinality((1..Len(call.original)) \ IdMismatched)

\* one pair with equal identifiers whose raw value and raw unit both differ
\* from the original's was validated: failed is 2 for 1 record, which is
\* counted as unchanged
C23_Witness ==
    /\ Ran("validateMigration")
    /\ Len(call.original) = 1
    /\ Len(call.migrated) = 1
    /\ IdMismatched = {}
    /\ ValueRawDiffers(1)
    /\ UnitRawDiffers(1)
    /\ outcome.result.stats.failed = 2
    /\ outcome.result.stats.unchanged = 1

\* |orig.value - mig.value_base| < 1e-10 for the pair at position i
WithinTolerance(i) ==
    Less(MathAbs(Minus(call.original[i].value, call.migrated[i].value_base)), Tolerance1em10)

\* mig.value_base / orig.value for the pair at position i
RatioAt(i) == Over(call.migrated[i].value_base, call.original[i].value)

\* the ratio is below 0.001 or above 1000
OutOfRange(ratio) == Less(ratio, Num(1, 1000)) \/ Less(NumberOf(1000), ratio)

\* the positions of the pairs with equal identifiers
IdMatched == (1..Len(call.original)) \ IdMismatched

\* C24: in validateMigration each pair with equal identifiers is counted as
\* unchanged when |orig.value - value_base| < 1e-10 and as converted
\* otherwise; a warning is added only for converted pairs, and exactly when
\* value_base / orig.value is below 0.001 or above 1000 (zero and negative
\* ratios included); a warning adds neither an error nor to failed.
C24_ConvertedUnchangedWarning ==
    (Ran("validateMigration") /\ Len(call.original) = Len(call.migrated)) =>
        /\ outcome.result.stats.unchanged
              = Cardinality({i \in IdMatched : WithinTolerance(i)})
        /\ outcome.result.stats.converted
              = Cardinality({i \in IdMatched : ~WithinTolerance(i)})
        /\ \A i \in IdMatched :
              /\ Cardinality(WarningsAt(i)) =
                    (IF ~WithinTolerance(i) /\ OutOfRange(RatioAt(i)) THEN 1 ELSE 0)
              /\ Cardinality(ErrorsAt(i)) = (IF ValueRawDiffers(i) THEN 1 ELSE 0)
                                            + (IF UnitRawDiffers(i) THEN 1 ELSE 0)
        /\ Len(outcome.result.warnings)
              = Cardinality({i \in IdMatched : ~WithinTolerance(i) /\ OutOfRange(RatioAt(i))})
        /\ outcome.result.stats.failed
              = Cardinality(IdMismatched)
                + Cardinality({i \in IdMatched : ValueRawDiffers(i)})
                + Cardinality({i \in IdMatched : UnitRawDiffers(i)})

\* two pairs with equal identifiers and a correct audit trail were validated,
\* one with the ratio -1 and one with the ratio 0: both are counted as
\* converted, both are warned about, and nothing has failed
C24_Witness ==
    /\ Ran("validateMigration")
    /\ Len(call.original) = 2
    /\ Len(call.migrated) = 2
    /\ IdMismatched = {}
    /\ RatioAt(1) = NumberOf(-1)
    /\ RatioAt(2) = Zero
    /\ ~WithinTolerance(2)
    /\ Len(outcome.result.warnings) = 2
    /\ outcome.result.stats.converted = 2
    /\ outcome.result.stats.failed = 0
    /\ outcome.result.success

\* the increments of the version that calls made so far have yet to make:
\* those queued, and the one of a call that stands before setUnitsVersion
PendingIncrements(p) ==
    p.queuedIncrements + (IF p.position = "setUnitsVersion" THEN 1 ELSE 0)

\* the version starts at 1, every call of updatePreferences adds exactly
\* one to it (at once or at the next render), also when the partial given
\* changes nothing; it never decreases and nothing else changes it
VersionCountsCalls ==
    /\ [](provider.mounted =>
            provider.unitsVersion + PendingIncrements(provider)
                = 1 + Len(provider.updates))
    /\ [][provider.mounted =>
            /\ provider'.unitsVersion >= provider.unitsVersion
            /\ provider'.unitsVersion + PendingIncrements(provider')
                  = provider.unitsVersion + PendingIncrements(provider)
                    + (Len(provider'.updates) - Len(provider.updates))]_vars

\* a render that changes the preferences raises the version; the version
\* never decreasing, this is the same as: of two renders of the provider
\* with different preferences the later has the strictly larger version
ChangedPreferencesRaiseVersion ==
    [][(provider.mounted /\ provider'.preferences # provider.preferences) =>
            provider'.unitsVersion > provider.unitsVersion]_vars

\* C25: the unitsVersion of the provider starts at 1 and is incremented by
\* exactly one for every call of updatePreferences, also when the partial
\* given changes nothing; it never decreases and nothing else changes it;
\* so of two provider states with different preferences the later one has
\* the strictly larger version.
C25_VersionCountsUpdates ==
    /\ VersionCountsCalls
    /\ ChangedPreferencesRaiseVersion

\* the preferences with the first n of the partial preferences merged in, in
\* the order of the calls
RECURSIVE MergedInOrder(_, _, _)
MergedInOrder(preferences, updates, n) ==
    IF n = 0 THEN preferences
    ELSE Spread(MergedInOrder(preferences, updates, n - 1), updates[n])

\* the initial preferences with every update made so far merged in
AllUpdatesMerged ==
    MergedInOrder(InitialPreferencesOr(call.initialPreferences), provider.updates,
                  Len(provider.updates))

\* C27: no preference update is lost: once the provider has rendered after
\* the calls updatePreferences(p1), ..., updatePreferences(pn), several of
\* which may have been made between two renders, its preferences are the
\* initial preferences with p1..pn merged in the order of the calls, and so
\* is the value passed to the last onPreferencesChange callback.
C27_NoUpdateLost ==
    (/\ provider.mounted
     /\ provider.position = "idle"
     /\ provider.queuedPreferences = <<>>) =>
        /\ provider.preferences = AllUpdatesMerged
        /\ provider.notified # <<>> =>
              provider.notified[Len(provider.notified)] = provider.preferences

\* the report of validating the batch given to migrateTestResults against
\* the batch it returned
PipelineReport == validateMigration(call.results, outcome.result)

\* no record of the batch has the value NaN
NoNaNValues == \A i \in 1..Len(call.results) : ~isNaN(call.results[i].value)

\* C26: for every batch of records with non-NaN values, whatever their units
\* (null, recognized or unrecognized), validateMigration(records,
\* migrateTestResults(records)) reports success = true, no errors,
\* stats.failed = 0, stats.total = the number of records and
\* converted + unchanged = total.
C26_PipelineOutputValidates ==
    (Ran("migrateTestResults") /\ NoNaNValues) =>
        /\ PipelineReport.success
        /\ PipelineReport.errors = <<>>
        /\ PipelineReport.stats.failed = 0
        /\ PipelineReport.stats.total = Len(call.results)
        /\ PipelineReport.stats.converted + PipelineReport.stats.unchanged
              = PipelineReport.stats.total

\* C26 witness: a batch of two records, one converted from a recognized unit
\* and one with an unrecognized unit left unchanged, validates.
C26_Witness ==
    /\ Ran("migrateTestResults")
    /\ NoNaNValues
    /\ Len(call.results) = 2
    /\ call.results[1].units = <<"L","b","s">>
    /\ call.results[2].units = <<"s","t","o","n","e">>
    /\ PipelineReport.success
    /\ PipelineReport.stats.converted = 1
    /\ PipelineReport.stats.unchanged = 1

\* the preferences of the call map each family to a registered unit
WellFormedPreferences ==
    \A f \in Families : Property(PreferencesOr(call.preferences), f) \in RegisteredUnits

\* the base value of the call is a finite number
FiniteBaseValue == call.baseValue \in [k : {"num"}, s : {1, -1}, m : Seq(Nat), e : Int]

\* C28: for every metric key, every finite base value and every preference
\* set that maps each of the nine families to a registered unit,
\* formatBaseValue does not fail and returns unit =
\* preferences[getMetricType(key)], which is determined by the key and the
\* preferences alone, and displayValue = baseValue / factor(unit).
C28_FormattingPathTotal ==
    (/\ Ran("formatBaseValue")
     /\ FiniteBaseValue
     /\ WellFormedPreferences) =>
        /\ ~outcome.result.threw
        /\ outcome.result.value.unit = ResolvedUnit
        /\ outcome.result.value.displayValue =
              Over(call.baseValue, unitTable[ResolvedUnit].factor)
        /\ outcome.result.value.unit = WithValueOne.value.unit

\* the precision of the call is left out or is one that toFixed accepts
\* (0 to 100)
UsablePrecision ==
    call.precision = UndefinedValue \/ ~toFixed(NumberOf(1), call.precision).threw

\* C28, amended: for every metric key, every finite base value, every
\* preference set that maps each of the nine families to a registered unit
\* and every precision that is left out or between 0 and 100,
\* formatBaseValue does not fail and returns unit =
\* preferences[getMetricType(key)], which is determined by the key and the
\* preferences alone, and displayValue = baseValue / factor(unit); with any
\* other precision the call fails with the RangeError of toFixed.
C28_FormattingPathTotalForUsablePrecision ==
    (/\ Ran("formatBaseValue")
     /\ FiniteBaseValue
     /\ WellFormedPreferences) =>
        IF UsablePrecision
        THEN /\ ~outcome.result.threw
             /\ outcome.result.value.unit = ResolvedUnit
             /\ outcome.result.value.displayValue =
                   Over(call.baseValue, unitTable[ResolvedUnit].factor)
             /\ outcome.result.value.unit = WithValueOne.value.unit
        ELSE /\ outcome.result.threw
             /\ outcome.result.error = toFixed(NumberOf(1), call.precision).error

\* C28 witness: 72.5 formatted for a weight key with preferences that give
\* pounds for the mass family: the unit is lb, not the default kg, and the
\* display value is 72.5 / 0.45359237.
C28_Witness ==
    /\ Ran("formatBaseValue")
    /\ call.baseValue = Num(725, 10)
    /\ call.metricKey = <<"b","o","d","y","_","w","e","i","g","h","t">>
    /\ call.preferences.given
    /\ WellFormedPreferences
    /\ call.precision = UndefinedValue
    /\ ~outcome.result.threw
    /\ outcome.result.value.unit = <<"l","b">>
    /\ outcome.result.value.displayValue = Over(Num(725, 10), Num(45359237, 100000000))
    /\ outcome.result.value.displayValue # call.baseValue

\* the preferences given to getTestDisplayUnit map each family to a
\* registered unit
EveryFamilyRegistered ==
    \A f \in Families : Property(call.preferences, f) \in RegisteredUnits

\* C29: with a preference set that maps every family to a registered unit,
\* getTestDisplayUnit returns a unit registered in the Unit Table for every
\* raw unit and every descriptor, and fromBase accepts its result.
C29_DisplayUnitRegistered ==
    (Ran("getTestDisplayUnit") /\ EveryFamilyRegistered) =>
        /\ outcome.result \in RegisteredUnits
        /\ ~fromBase(NumberOf(1), outcome.result).threw

\* C30 as stated: in every report of validateMigration, on the
\* length-mismatch path and on the per-record path and for all inputs
\* including empty sequences, success is true exactly when stats.failed is 0
C30_SuccessIffNoneFailed ==
    Ran("validateMigration") =>
        (outcome.result.success <=> outcome.result.stats.failed = 0)

\* C30 amended: success is true exactly when stats.failed is 0 in every
\* report of the per-record path and in every report of the length-mismatch
\* path for a non-empty original; for an empty original and a non-empty
\* migrated sequence the report has success = false and stats.failed = 0
C30_SuccessIffNoneFailedUnlessEmpty ==
    Ran("validateMigration") =>
        IF call.original = <<>> /\ call.migrated # <<>>
        THEN ~outcome.result.success /\ outcome.result.stats.failed = 0
        ELSE outcome.result.success <=> outcome.result.stats.failed = 0

\* C30 witness: an empty original validated against one migrated record
\* gives success = false with failed = 0
C30_Witness ==
    /\ Ran("validateMigration")
    /\ call.original = <<>>
    /\ Len(call.migrated) = 1
    /\ ~outcome.result.success
    /\ outcome.result.stats.failed = 0
    /\ Len(outcome.result.errors) = 1

====
